---- MODULE Spec2Model ----
(***************************************************************************)
(* Parallel MCTS engine of Leela Zero (alreadydone/lz): UCTSearch.cpp.     *)
(* Workers run search() concurrently with the controller (update_root,     *)
(* think, ponder), the evaluator callbacks (backup) and the background     *)
(* delete tasks.  UCTNode.cpp and the headers are not among the sources;   *)
(* the node operations are modelled from the design document.              *)
(***************************************************************************)
EXTENDS Integers, Sequences, FiniteSets, TLC

\* ------------------------------------------------------------- bounds
NWorkers == 2          \* worker threads calling search()
MaxSims == 4           \* simulations launched in one behaviour
MaxUpdates == 3        \* update_root calls in one behaviour
MaxGameLen == 1        \* moves on the game record
VisitCap == 1          \* the finite visit limit Init may choose
MaxTreeSize == 12      \* the configured cap on live nodes
DeepGameLen == 2       \* moves on the game record under GameSpec
GameSims == 3          \* simulations launched in one behaviour of GameSpec
BoardSize == 3         \* the board side of the get_best_move calls
SmallTree == 3         \* a cap the first expansion of the root reaches
MaxMemory == 64        \* the largest memory setting tried
MaxReaders == 128      \* further search threads that use the root lock
MaxChildren == 3       \* root children of a pruning study
MaxChildVisits == 2    \* visits of a root child of a pruning study
MaxInterval == 2

\* ------------------------------------------------------------- constants
PASS == 0              \* FastBoard::PASS
STONE == 1             \* any board vertex
UNLIMITED_PLAYOUTS == 1000   \* stands for the header's value: no counter reaches it
WRITER == 128          \* the writer's share of m_root_lock
RESIGN == -2            \* FastBoard::RESIGN
DEFAULT_MAX_MEMORY == 60     \* UCTSearch::DEFAULT_MAX_MEMORY, in units of one node
MIN_TREE_SPACE == 4          \* UCTSearch::MIN_TREE_SPACE, in the same units
ENTRY_SIZE == 2              \* NNCache::ENTRY_SIZE, in the same units
MIN_CACHE_COUNT == 1         \* NNCache::MIN_CACHE_COUNT
DEFAULT_LAGBUFFER == 100    \* cfg_lagbuffer_cs after setup_default_parameters
MIN_OPTION_MEMORY == 8      \* lz-setoption: the least memory accepted (128 MiB)
MAX_OPTION_MEMORY == 100    \* lz-setoption: the most memory accepted (131072 MiB)

Workers == 1..NWorkers
Moves == {PASS, STONE}
NoState == <<-1>>      \* m_last_rootstate == nullptr

VARIABLES
    game,            \* m_gtpstate: the moves played so far
    rootstate,       \* m_rootstate
    last_rootstate,  \* m_last_rootstate, or NoState
    root,            \* m_root (a node id)
    N,               \* the heap of UCTNodes, indexed by node id
    root_lock,       \* m_root_lock
    run,             \* m_run
    terminate,       \* m_terminate
    root_prepared,   \* m_root_prepared
    playouts,        \* m_playouts
    positions,       \* m_positions
    maxvisits,       \* m_maxvisits
    maxplayouts,     \* m_maxplayouts
    komi,            \* the komi of m_gtpstate (g), m_rootstate (r), m_last_rootstate (l)
    call,            \* the get_best_move call under study: its inputs and result
    advanced,        \* how the last advance_to_new_rootstate ended
    cfg,             \* the configuration: the cfg_ globals of GTP.cpp
    readers,         \* further search threads in acquire_reader or past it
    pcounter,        \* m_pending_counter: index into pending, 0 = nullptr
    pending,         \* the heap of pending counters
    tasks,           \* m_delete_futures: the delete tasks
    wpc,             \* each worker's position in search()
    wsim,            \* the simulation a worker is running (0 = none)
    sims,            \* BackupData of every simulation in flight, by id
    nsims,           \* simulations launched so far
    failed,          \* simulations that returned on FAIL
    overby,          \* simulations for which a unit was undone that they never added
    contested,       \* expansions that finished after a FAIL hit their node
    ctl,             \* the controller's position
    mode,            \* "think" or "ponder"
    nupdates,        \* update_root calls so far
    leaked,          \* nodes detached by update_root and handed to no task
    prepared_by      \* the node whose callback last set m_root_prepared

vars == <<game, rootstate, last_rootstate, root, N, root_lock, run, terminate,
          root_prepared, playouts, positions, maxvisits, maxplayouts, komi, call, advanced, cfg, readers,
          pcounter, pending,
          tasks, wpc, wsim, sims, nsims, failed, overby, contested, ctl, mode,
          nupdates, leaked, prepared_by>>

\* ------------------------------------------------------------- helpers
Range(s) == {s[i] : i \in DOMAIN s}
Last(s) == s[Len(s)]
Front(s) == SubSeq(s, 1, Len(s) - 1)

\* UCTNode(move, policy): a fresh, unexpanded node.
NewNode(mv) ==
    [move |-> mv, children |-> {}, visits |-> 0, vl |-> 0, acc |-> 0,
     st |-> "IDLE", freed |-> FALSE, active |-> TRUE,
     \* bookkeeping: whose units lie on the node, who bumped accumulated_vl,
     \* FAILs under the present writer, backups through the node
     owed |-> {}, accby |-> {}, nfail |-> 0, nbk |-> 0]

\* GameState::get_passes(): consecutive passes ending the record.
get_passes(s) ==
    IF Len(s) >= 2 /\ s[Len(s)] = PASS /\ s[Len(s) - 1] = PASS THEN 2
    ELSE IF Len(s) >= 1 /\ s[Len(s)] = PASS THEN 1 ELSE 0

\* GameState::superko(): the position repeats an earlier one.  Abstract rule:
\* a stone answered at once by a stone recreates an earlier position.
superko(s) ==
    Len(s) >= 2 /\ s[Len(s)] = STONE /\ s[Len(s) - 1] = STONE

\* UCTNodePointer::get_tree_size(): nodes alive.
tree_size == Cardinality({n \in DOMAIN N : ~N[n].freed})

\* cfg_max_tree_size.  Memory is counted in units of one tree node.
cfg_max_tree_size == cfg.max_tree_size

\* A running test that leaves out the run flag.
TreeHasRoom == tree_size < cfg_max_tree_size

\* UCTSearch::is_running()
is_running == run /\ tree_size < cfg_max_tree_size

\* A stop test that ignores the visit limit.
PlayoutsOrTime(out_of_time) ==
    \/ playouts >= maxplayouts
    \/ out_of_time

\* UCTSearch::stop_thinking(elapsed_centis, time_for_move); out_of_time is
\* elapsed_centis >= time_for_move.
stop_thinking(out_of_time) ==
    \/ playouts >= maxplayouts
    \/ N[root].visits >= maxvisits
    \/ out_of_time

\* think(): keeprunning after one progress check; alt is what
\* have_alternate_moves(elapsed_centis, time_for_move) returned.
keeprunning(out_of_time, alt) ==
    is_running /\ ~stop_thinking(out_of_time) /\ alt

\* Simulations that have not finished: on a worker or awaiting the evaluator.
InFlight == DOMAIN sims

\* ------------------------------------------------------------- node operations
\* UCTNode::get_action(is_root): the decision of the node lock protocol.  With
\* is_root set (the root, not yet prepared) an expanded node is expanded again.
get_action(nd, forced) ==
    IF nd.st = "INVALID" THEN "BACKUP"
    ELSE IF nd.st = "WRITING" THEN "FAIL"
    ELSE IF nd.st = "IDLE" \/ forced THEN "WRITE"
    ELSE "READ"

\* UCTNode::update(eval, vl, factor, sel_factor): one visit, vl units undone.
update(NN, n, vl) ==
    [NN EXCEPT ![n].visits = @ + 1, ![n].vl = @ - vl]

\* UCTNode::virtual_loss_undo(vl)
virtual_loss_undo(NN, n, vl) ==
    [NN EXCEPT ![n].vl = @ - vl]

\* UCTNode::virtual_loss(vl): the unit a simulation puts on a node it enters.
virtual_loss(NN, n, vl) ==
    [NN EXCEPT ![n].vl = @ + vl]

\* The children uct_select_child may return: the valid ones.
ValidChildren(NN, n) == {c \in NN[n].children : NN[c].st # "INVALID"}

\* UCTNode::find_child(move): the child reached by move, 0 if there is none.
find_child(NN, r, mv) ==
    IF \E c \in NN[r].children : NN[c].move = mv
    THEN CHOOSE c \in NN[r].children : NN[c].move = mv
    ELSE 0

\* UCTNode::create_children: one node per kept move; nothing if the node
\* already has children.
create_children(NN, n, kept) ==
    IF NN[n].children # {} THEN NN
    ELSE LET ms == IF PASS \in kept /\ STONE \in kept THEN <<PASS, STONE>>
                   ELSE IF STONE \in kept THEN <<STONE>> ELSE <<PASS>>
             base == Len(NN)
             NN2 == NN \o [i \in 1..Len(ms) |-> NewNode(ms[i])]
         IN [NN2 EXCEPT ![n].children = (base + 1)..(base + Len(ms))]

\* ~UCTNode: a node and everything below it.
RECURSIVE Subtree(_, _)
Subtree(NN, n) == {n} \cup UNION {Subtree(NN, c) : c \in NN[n].children}

\* ------------------------------------------------------------- backup
\* A backup that walks the whole path, the leaf included.
backup_whole_path(NN, path, vl) ==
    [n \in DOMAIN NN |->
        IF n \in Range(path)
        THEN [NN[n] EXCEPT !.visits = @ + 1, !.vl = @ - vl]
        ELSE NN[n]]

\* A backup that stops at the leaf.
no_propagation(NN, path, vl) == NN

\* UCTSearch::backup(BackupData&, uint16_t): every path node above the leaf
\* gets eval, one visit, and vl units undone.
backup(NN, path, vl) ==
    [n \in DOMAIN NN |->
        IF n \in Range(Front(path))
        THEN [NN[n] EXCEPT !.visits = @ + 1, !.vl = @ - vl]
        ELSE NN[n]]

\* UCTSearch::failed_simulation(bd, vl): vl units undone on every path node.
failed_simulation(NN, path, vl) ==
    [n \in DOMAIN NN |->
        IF n \in Range(path) THEN [NN[n] EXCEPT !.vl = @ - vl] ELSE NN[n]]

\* Bookkeeping: one unit is taken off every node of `nodes` on behalf of
\* each simulation of `who`.
Settle(NN, who, nodes) ==
    [n \in DOMAIN NN |->
        IF n \in nodes THEN [NN[n] EXCEPT !.owed = @ \ who] ELSE NN[n]]
\* The simulations of `who` that have no unit on some node of `nodes`.
Overdrawn(NN, who, nodes) ==
    {s \in who : \E n \in nodes : s \notin NN[n].owed}
\* Bookkeeping: a backup through every node of `nodes` has completed.
Counted(NN, nodes) ==
    [n \in DOMAIN NN |->
        IF n \in nodes THEN [NN[n] EXCEPT !.nbk = @ + 1] ELSE NN[n]]
\* Bookkeeping: simulation s has put a unit on node n.
Owes(NN, n, s) == [NN EXCEPT ![n].owed = @ \cup {s}]
\* A simulation leaves the set of those in flight.
Finished(s) == [i \in DOMAIN sims \ {s} |-> sims[i]]

\* ------------------------------------------------------------- root advance
\* A replay that stops after the first played move.
ReplayFirst(moves, r, del, NN) ==
    IF moves = <<>>
    THEN [ok |-> TRUE, root |-> r, del |-> del, N |-> NN, why |-> "ok"]
    ELSE LET c == find_child(NN, r, Head(moves)) IN
         IF c = 0
         THEN [ok |-> FALSE, root |-> 0, del |-> Append(del, r), N |-> NN,
               why |-> "child"]
         ELSE [ok |-> TRUE, root |-> c, del |-> Append(del, r),
               N |-> [NN EXCEPT ![r].children = @ \ {c}], why |-> "ok"]

\* The replay loop of advance_to_new_rootstate: each move promotes the
\* matching child and detaches the old root into to_delete.
RECURSIVE Replay(_, _, _, _)
Replay(moves, r, del, NN) ==
    IF moves = <<>>
    THEN [ok |-> TRUE, root |-> r, del |-> del, N |-> NN, why |-> "ok"]
    ELSE LET c == find_child(NN, r, Head(moves)) IN
         IF c = 0
         THEN [ok |-> FALSE, root |-> 0, del |-> Append(del, r), N |-> NN,
               why |-> "child"]
         ELSE Replay(Tail(moves), c, Append(del, r),
                     [NN EXCEPT ![r].children = @ \ {c}])

\* An early return of advance_to_new_rootstate: m_root is left in place.
NoAdvance(why) == [ok |-> FALSE, root |-> root, del |-> <<>>, N |-> N, why |-> why]

\* A depth test that also turns away a depth of zero.
NotForward(depth) == depth <= 0
\* if (depth < 0) return false
GoesBack(depth) == depth < 0

\* A komi test that never fires.
SameKomi(a, b) == FALSE
\* m_rootstate.get_komi() != m_last_rootstate->get_komi()
KomiDiffers(a, b) == a # b

\* UCTSearch::advance_to_new_rootstate(to_delete), with m_rootstate = rs.
advance_to_new_rootstate(rs) ==
    IF last_rootstate = NoState THEN NoAdvance("nostate")
    ELSE IF KomiDiffers(komi.g, komi.l) THEN NoAdvance("komi")
    ELSE IF GoesBack(Len(rs) - Len(last_rootstate)) THEN NoAdvance("depth")
    ELSE IF SubSeq(rs, 1, Len(last_rootstate)) # last_rootstate
         THEN NoAdvance("hash")
    ELSE Replay(SubSeq(rs, Len(last_rootstate) + 1, Len(rs)), root, <<>>, N)

\* ------------------------------------------------------------- initial state
\* The visit and playout limits the constructor may be given
\* (set_visit_limit(cfg_max_visits), set_playout_limit(cfg_max_playouts)).
Limits ==
    {<<UNLIMITED_PLAYOUTS, UNLIMITED_PLAYOUTS>>, <<VisitCap, UNLIMITED_PLAYOUTS>>,
     <<UNLIMITED_PLAYOUTS, 0>>}

\* No get_best_move call is under study.
NoCall == [made |-> FALSE]

\* UCTSearch::UCTSearch: a constructor root, no pending counter, nothing running.
Constructed ==
    /\ game = <<>>
    /\ rootstate = <<>>
    /\ last_rootstate = NoState
    /\ N = <<NewNode(PASS)>>
    /\ root = 1
    /\ root_lock = 0
    /\ run = FALSE
    /\ terminate = FALSE
    /\ root_prepared = FALSE
    /\ playouts = 0
    /\ positions = 0
    /\ komi = [g |-> 0, r |-> 0, l |-> 0]
    /\ advanced = [ok |-> FALSE, depth |-> 0, why |-> "none"]
    /\ readers = [holding |-> 0, undoing |-> 0]
    /\ pcounter = 0
    /\ pending = <<>>
    /\ tasks = <<>>
    /\ wpc = [w \in Workers |-> "idle"]
    /\ wsim = [w \in Workers |-> 0]
    /\ sims = <<>>
    /\ nsims = 0
    /\ failed = {}
    /\ overby = {}
    /\ contested = {}
    /\ ctl = "idle"
    /\ mode = "none"
    /\ nupdates = 0
    /\ leaked = {}
    /\ prepared_by = 0

\* The configuration after GTP::setup_default_parameters: nothing is sized
\* yet, cfg_max_tree_size holds the default memory.
Defaults(base) ==
    [max_memory |-> DEFAULT_MAX_MEMORY, max_cache_ratio_percent |-> 10,
     max_tree_size |-> DEFAULT_MAX_MEMORY, cache_size |-> 0,
     timemanage |-> "AUTO", base_memory |-> base,
     allow_pondering |-> TRUE, max_playouts |-> UNLIMITED_PLAYOUTS,
     max_visits |-> UNLIMITED_PLAYOUTS, lagbuffer_cs |-> DEFAULT_LAGBUFFER,
     resignpct |-> -1, analyze_interval_centis |-> 0]

\* A configuration whose tree may hold cap nodes.
Configured(cap) == [Defaults(0) EXCEPT !.max_tree_size = cap]

Init ==
    /\ Constructed
    /\ \E lim \in Limits : maxvisits = lim[1] /\ maxplayouts = lim[2]
    /\ call = NoCall
    /\ cfg = Configured(MaxTreeSize)

ctlvars == <<game, rootstate, last_rootstate, root, run, terminate, maxvisits,
             maxplayouts, komi, call, advanced, cfg, readers, pcounter, tasks, ctl, mode, nupdates, leaked>>
notes == <<failed, overby, contested>>

\* ------------------------------------------------------------- search()
\* Workers that have entered search() and may still launch a simulation.
Entering == {w \in Workers : wpc[w] \in {"rd_add", "rd_undo", "rd_spin"}}

\* The simulations a behaviour may have launched by its present root update:
\* the budget shrinks by one with every update after the first.
Budget(max) == max - (IF nupdates > 1 THEN nupdates - 1 ELSE 0)
SimBudget == Budget(MaxSims)

\* The BackupData of a simulation launched now.
NewSim ==
    [root |-> root, counter |-> pcounter, state |-> rootstate, node |-> root,
     path |-> <<>>, stage |-> "run", vl |-> 0, first_visit |-> FALSE,
     consumed |-> {}]

\* search(): the is_running() test at its top, and the load of
\* acquire_reader(), which spins while a writer is announced.
SearchEnterWithin(w, budget) ==
    /\ wpc[w] = "idle" /\ ~terminate
    /\ nsims + Cardinality(Entering) < budget
    /\ is_running => root_lock < WRITER
    /\ wpc' = [wpc EXCEPT ![w] = IF is_running THEN "rd_add" ELSE "cv_check"]
    /\ UNCHANGED <<ctlvars, N, root_lock, root_prepared, playouts, positions, pending,
                   wsim, sims, nsims, notes, prepared_by>>

SearchEnter(w) == SearchEnterWithin(w, SimBudget)

\* The loop that calls search() ends once m_terminate is set.
WorkerExit(w) ==
    /\ wpc[w] = "idle" /\ terminate
    /\ wpc' = [wpc EXCEPT ![w] = "exited"]
    /\ UNCHANGED <<ctlvars, N, root_lock, root_prepared, playouts, positions, pending,
                   wsim, sims, nsims, notes, prepared_by>>

\* acquire_reader(): fetch_add(1).  If the old value was 128 or more the
\* increment is to be undone.  Else the reader lock is held, and search()
\* copies the root state, the root and the pending counter and counts the
\* simulation in, unless stop_thinking(0, 1).
ReaderAdd(w) ==
    /\ wpc[w] = "rd_add"
    /\ root_lock' = root_lock + 1
    /\ IF root_lock >= WRITER
       THEN /\ wpc' = [wpc EXCEPT ![w] = "rd_undo"]
            /\ UNCHANGED <<sims, nsims, wsim, pending>>
       ELSE IF ~stop_thinking(FALSE)
       THEN /\ sims' = [i \in DOMAIN sims \cup {nsims + 1} |->
                           IF i = nsims + 1 THEN NewSim ELSE sims[i]]
            /\ nsims' = nsims + 1
            /\ wsim' = [wsim EXCEPT ![w] = nsims + 1]
            /\ pending' = [pending EXCEPT ![pcounter] = @ + 1]
            /\ wpc' = [wpc EXCEPT ![w] = "rd_rel_go"]
       ELSE /\ wpc' = [wpc EXCEPT ![w] = "rd_rel_wait"]
            /\ UNCHANGED <<sims, nsims, wsim, pending>>
    /\ UNCHANGED <<ctlvars, N, root_prepared, playouts, positions, notes, prepared_by>>

\* acquire_reader(): --m_root_lock, and the loop goes on.
ReaderUndo(w) ==
    /\ wpc[w] = "rd_undo"
    /\ root_lock' = root_lock - 1
    /\ wpc' = [wpc EXCEPT ![w] = "rd_spin"]
    /\ UNCHANGED <<ctlvars, N, root_prepared, playouts, positions, pending, wsim, sims,
                   nsims, notes, prepared_by>>

\* acquire_reader(): the load that finds no writer announced.
ReaderSpin(w) ==
    /\ wpc[w] = "rd_spin"
    /\ root_lock < WRITER
    /\ wpc' = [wpc EXCEPT ![w] = "rd_add"]
    /\ UNCHANGED <<ctlvars, N, root_lock, root_prepared, playouts, positions, pending,
                   wsim, sims, nsims, notes, prepared_by>>

\* release_reader(), then play_simulation or the wait on the condition variable.
ReaderRelease(w) ==
    /\ wpc[w] \in {"rd_rel_go", "rd_rel_wait"}
    /\ root_lock' = root_lock - 1
    /\ wpc' = [wpc EXCEPT ![w] = IF wpc[w] = "rd_rel_go" THEN "sim" ELSE "cv_check"]
    /\ UNCHANGED <<ctlvars, N, root_prepared, playouts, positions, pending, wsim, sims,
                   nsims, notes, prepared_by>>

\* A wait whose predicate leaves out m_terminate.
CvWaitIgnoresTerminate(w) ==
    /\ wpc[w] = "cv_check"
    /\ wpc' = [wpc EXCEPT ![w] =
          IF is_running /\ ~stop_thinking(FALSE) THEN "idle" ELSE "cv_blocked"]
    /\ UNCHANGED <<ctlvars, N, root_lock, root_prepared, playouts, positions, pending,
                   wsim, sims, nsims, notes, prepared_by>>

\* search(): m_terminate returns; else m_cv.wait with its predicate.
CvCheck(w) ==
    /\ wpc[w] = "cv_check"
    /\ wpc' = [wpc EXCEPT ![w] =
          IF terminate THEN "exited"
          ELSE IF is_running /\ ~stop_thinking(FALSE) THEN "idle"
          ELSE "cv_blocked"]
    /\ UNCHANGED <<ctlvars, N, root_lock, root_prepared, playouts, positions, pending,
                   wsim, sims, nsims, notes, prepared_by>>

\* ------------------------------------------------------------- play_simulation
\* One iteration of the loop of play_simulation, by the case it takes.
SimOf(w) == sims[wsim[w]]
AtRoot(w) == SimOf(w).path = <<>>
PathWith(w) == Append(SimOf(w).path, SimOf(w).node)
\* The simulation's unit on its start root, put there as it enters the path.
Entered(w) ==
    IF AtRoot(w)
    THEN Owes(virtual_loss(N, SimOf(w).node, 1), SimOf(w).node, wsim[w])
    ELSE N
Terminal(w) == get_passes(SimOf(w).state) >= 2
Action(w) == get_action(N[SimOf(w).node], AtRoot(w) /\ ~root_prepared)
\* play_simulation returns, and so does search().
Returned(w) ==
    /\ wpc' = [wpc EXCEPT ![w] = "idle"]
    /\ wsim' = [wsim EXCEPT ![w] = 0]
\* The leaf is updated with bd.eval and backup(bd, 1) walks the path.
LeafBackup(w) ==
    /\ N' = Counted(Settle(backup(update(Entered(w), SimOf(w).node, 1),
                                  PathWith(w), 1),
                           {wsim[w]}, Range(PathWith(w))),
                    Range(PathWith(w)))
    /\ overby' = overby \cup Overdrawn(Entered(w), {wsim[w]}, Range(PathWith(w)))
    /\ sims' = Finished(wsim[w])
    /\ pending' = [pending EXCEPT ![SimOf(w).counter] = @ - 1]
    /\ Returned(w)
    /\ UNCHANGED <<ctlvars, root_lock, root_prepared, playouts, positions, nsims, failed,
                   contested, prepared_by>>

\* End of game: the final score is backed up.
SimTerminal(w) ==
    /\ wpc[w] = "sim" /\ Terminal(w)
    /\ LeafBackup(w)

\* case WRITE: the node's writer is taken and the position goes to the evaluator.
SimWrite(w) ==
    /\ wpc[w] = "sim" /\ ~Terminal(w) /\ Action(w) = "WRITE"
    /\ N' = [Entered(w) EXCEPT ![SimOf(w).node].st = "WRITING",
                               ![SimOf(w).node].acc = @ + 1,
                               ![SimOf(w).node].accby = @ \cup {wsim[w]},
                               ![SimOf(w).node].nfail = 0]
    /\ sims' = [sims EXCEPT ![wsim[w]].path = PathWith(w),
                            ![wsim[w]].stage = "net"]
    /\ Returned(w)
    /\ UNCHANGED <<ctlvars, root_lock, root_prepared, playouts, positions, pending, nsims,
                   notes, prepared_by>>

\* A FAIL return that leaves the pending counter as it is.
SimFailKeepsCount(w) ==
    /\ wpc[w] = "sim" /\ ~Terminal(w) /\ Action(w) = "FAIL"
    /\ N' = [Entered(w) EXCEPT ![SimOf(w).node].acc = @ + 1,
                               ![SimOf(w).node].accby = @ \cup {wsim[w]},
                               ![SimOf(w).node].nfail = @ + 1]
    /\ failed' = failed \cup {wsim[w]}
    /\ sims' = Finished(wsim[w])
    /\ Returned(w)
    /\ UNCHANGED <<ctlvars, root_lock, root_prepared, playouts, positions, pending,
                   nsims, overby, contested, prepared_by>>

\* case FAIL: another writer is present; accumulated_vl is bumped and the
\* simulation returns without unwinding.
SimFail(w) ==
    /\ wpc[w] = "sim" /\ ~Terminal(w) /\ Action(w) = "FAIL"
    /\ N' = [Entered(w) EXCEPT ![SimOf(w).node].acc = @ + 1,
                               ![SimOf(w).node].accby = @ \cup {wsim[w]},
                               ![SimOf(w).node].nfail = @ + 1]
    /\ failed' = failed \cup {wsim[w]}
    /\ sims' = Finished(wsim[w])
    /\ pending' = [pending EXCEPT ![SimOf(w).counter] = @ - 1]
    /\ Returned(w)
    /\ UNCHANGED <<ctlvars, root_lock, root_prepared, playouts, positions, nsims, overby,
                   contested, prepared_by>>

\* case READ, a child c selected and its move legal: descend into it.
SimRead(w, c) ==
    /\ wpc[w] = "sim" /\ ~Terminal(w) /\ Action(w) = "READ"
    /\ c \in ValidChildren(N, SimOf(w).node)
    /\ ~(N[c].move # PASS /\ superko(Append(SimOf(w).state, N[c].move)))
    /\ N' = Owes(virtual_loss(Entered(w), c, 1), c, wsim[w])
    /\ sims' = [sims EXCEPT ![wsim[w]].path = PathWith(w),
                            ![wsim[w]].node = c,
                            ![wsim[w]].state = Append(@, N[c].move)]
    /\ UNCHANGED <<ctlvars, root_lock, root_prepared, playouts, positions, pending, wpc,
                   wsim, nsims, notes, prepared_by>>

\* case READ, the selected child's move violates superko: the child is
\* invalidated and failed_simulation(bd, 1) unwinds the recorded path.
SimSuperko(w, c) ==
    /\ wpc[w] = "sim" /\ ~Terminal(w) /\ Action(w) = "READ"
    /\ c \in ValidChildren(N, SimOf(w).node)
    /\ N[c].move # PASS /\ superko(Append(SimOf(w).state, N[c].move))
    /\ LET selected == Owes(virtual_loss(Entered(w), c, 1), c, wsim[w]) IN
       N' = Settle(failed_simulation([selected EXCEPT ![c].st = "INVALID"],
                                     PathWith(w), 1),
                   {wsim[w]}, Range(PathWith(w)))
    /\ sims' = Finished(wsim[w])
    /\ pending' = [pending EXCEPT ![SimOf(w).counter] = @ - 1]
    /\ Returned(w)
    /\ UNCHANGED <<ctlvars, root_lock, root_prepared, playouts, positions, nsims, notes,
                   prepared_by>>

\* case BACKUP, and case READ with no valid child: the node's cached net
\* eval is backed up along the path.
SimBackup(w) ==
    /\ wpc[w] = "sim" /\ ~Terminal(w)
    /\ \/ Action(w) = "BACKUP"
       \/ Action(w) = "READ" /\ ValidChildren(N, SimOf(w).node) = {}
    /\ LeafBackup(w)

\* ------------------------------------------------------------- evaluator callback
\* The moves whose policy passes the min-psa ratio at a position: every legal
\* move at the root (ratio 0); below it, the evaluator's policy drops PASS
\* right after a stone.
Kept(state, is_root) ==
    IF is_root \/ state = <<>> \/ Last(state) = PASS THEN Moves ELSE {STONE}

\* backup(bd, netresult), lines 294-301: the children are created and
\* accumulated_vl is consumed.
CbExpand(s) ==
    /\ s \in DOMAIN sims /\ sims[s].stage = "net"
    /\ LET leaf == Last(sims[s].path)
           kept == Kept(sims[s].state, Len(sims[s].path) = 1)
       IN
       /\ N' = [create_children(N, leaf, kept) EXCEPT ![leaf].acc = 0,
                                                      ![leaf].accby = {}]
       /\ sims' = [sims EXCEPT ![s].first_visit = (N[leaf].visits = 0),
                               ![s].vl = N[leaf].acc,
                               ![s].consumed = N[leaf].accby,
                               ![s].stage = "cb"]
    /\ UNCHANGED <<ctlvars, root_lock, root_prepared, playouts, positions,
                   pending, wpc, wsim, nsims, notes, prepared_by>>

\* The root is prepared by this callback: is_root && !m_root_prepared.
PreparesRoot(s) == Len(sims[s].path) = 1 /\ ~root_prepared

\* backup(bd, netresult), lines 302-322: the leaf's first visit, the root's
\* preparation, release of the node's writer; then the path is backed up on
\* a first visit and unwound otherwise, and the pending counter and
\* m_playouts are counted.  m_positions is counted with the playout: its
\* increment is not in UCTSearch.cpp, which only resets and prints it.
CbBackup(s) ==
    /\ s \in DOMAIN sims /\ sims[s].stage = "cb"
    /\ LET path == sims[s].path
           leaf == Last(path)
           first == sims[s].first_visit
           N1 == IF first THEN update(N, leaf, sims[s].vl) ELSE N
           N2 == [N1 EXCEPT ![leaf].st = IF @ = "WRITING" THEN "READY" ELSE @]
           N3 == IF first THEN backup(N2, path, sims[s].vl)
                 ELSE failed_simulation(N2, path, sims[s].vl)
           N4 == Settle(N3, sims[s].consumed, Range(path))
       IN
       /\ N' = IF first THEN Counted(N4, Range(path)) ELSE N4
       /\ overby' = overby \cup Overdrawn(N, sims[s].consumed, Range(path))
       /\ contested' = IF first /\ N[leaf].nfail >= 1
                       THEN contested \cup {[leaf |-> leaf, path |-> path,
                                             visits |-> N3[leaf].visits]}
                       ELSE contested
       /\ root_prepared' = (root_prepared \/ PreparesRoot(s))
       /\ prepared_by' = IF PreparesRoot(s) THEN leaf ELSE prepared_by
    /\ sims' = Finished(s)
    /\ pending' = [pending EXCEPT ![sims[s].counter] = @ - 1]
    /\ playouts' = playouts + 1
    /\ positions' = positions + 1
    /\ UNCHANGED <<ctlvars, root_lock, wpc, wsim, nsims, failed>>

\* ------------------------------------------------------------- delete tasks
\* The wait of a delete task: while (*pending_counter > 0 || root->m_virtual_loss)
TaskWaits(t) ==
    pending[tasks[t].counter] > 0 \/ N[Head(tasks[t].nodes)].vl # 0

\* The task update_root hands to m_delete_futures: it waits for the old
\* pending counter and the first detached root's virtual loss, then deletes
\* every detached root (and the counter).
DeleteTask(t) ==
    /\ t \in DOMAIN tasks /\ ~tasks[t].done
    /\ ~TaskWaits(t)
    /\ LET dead == UNION {Subtree(N, n) : n \in Range(tasks[t].nodes)} IN
       N' = [n \in DOMAIN N |->
                IF n \in dead THEN [N[n] EXCEPT !.freed = TRUE] ELSE N[n]]
    /\ tasks' = [tasks EXCEPT ![t].done = TRUE]
    /\ UNCHANGED <<game, rootstate, last_rootstate, root, root_lock, run,
                   terminate, root_prepared, playouts, positions, maxvisits, maxplayouts, komi, call, advanced, cfg, readers,
                   pcounter, pending, wpc, wsim, sims, nsims, notes, ctl, mode,
                   nupdates, leaked, prepared_by>>

\* The nodes a simulation in flight still dereferences: its start root and
\* recorded path, and the node it is at.
Refs(s) == Range(sims[s].path) \cup {sims[s].node}

\* A simulation dereferences a deleted node: besides running on the stale
\* memory (the actions above), the thread may fault.
UseAfterFree(s) ==
    /\ s \in DOMAIN sims
    /\ \E n \in Refs(s) : N[n].freed
    /\ sims' = Finished(s)
    /\ wpc' = [w \in Workers |-> IF wsim[w] = s THEN "exited" ELSE wpc[w]]
    /\ wsim' = [w \in Workers |-> IF wsim[w] = s THEN 0 ELSE wsim[w]]
    /\ UNCHANGED <<ctlvars, N, root_lock, root_prepared, playouts, positions, pending,
                   nsims, notes, prepared_by>>

\* ------------------------------------------------------------- controller
\* GTP play: a move is added to a game record of fewer than len moves.
GtpPlayUpTo(m, len) ==
    /\ ctl = "idle" /\ nupdates < MaxUpdates
    /\ Len(game) < len
    /\ ~(m # PASS /\ superko(Append(game, m)))
    /\ game' = Append(game, m)
    /\ UNCHANGED <<rootstate, last_rootstate, root, N, root_lock, run, terminate,
                   root_prepared, playouts, positions, maxvisits, maxplayouts, komi, call, advanced, cfg, readers, pcounter,
                   pending, tasks, wpc, wsim, sims, nsims, notes, ctl, mode, nupdates, leaked,
                   prepared_by>>

GtpPlay(m) == GtpPlayUpTo(m, MaxGameLen)

\* GTP undo: game.undo_move() takes the last move off the record.
GtpUndo ==
    /\ ctl = "idle" /\ nupdates < MaxUpdates
    /\ game # <<>>
    /\ game' = Front(game)
    /\ UNCHANGED <<rootstate, last_rootstate, root, N, root_lock, run, terminate,
                   root_prepared, playouts, positions, maxvisits, maxplayouts, komi,
                   call, advanced, cfg, readers, pcounter, pending, tasks, wpc, wsim, sims, nsims,
                   notes, ctl, mode, nupdates, leaked, prepared_by>>

\* The komi values GTP komi may set.
Komis == {0, 1}

\* GTP komi: game.set_komi(komi) when the value differs from the present one.
GtpKomi(k) ==
    /\ ctl = "idle" /\ nupdates < MaxUpdates
    /\ k \in Komis /\ k # komi.g
    /\ komi' = [komi EXCEPT !.g = k]
    /\ UNCHANGED <<game, rootstate, last_rootstate, root, N, root_lock, run,
                   terminate, root_prepared, playouts, positions, maxvisits,
                   maxplayouts, call, advanced, cfg, readers, pcounter, pending, tasks, wpc, wsim,
                   sims, nsims, notes, ctl, mode, nupdates, leaked, prepared_by>>

\* think() or ponder() is called; both begin with update_root().  The move
\* think returns is played, so it is called on a record of fewer than len
\* moves, or on a finished game.
StartSearchUpTo(m, len) ==
    /\ ctl = "idle" /\ nupdates < MaxUpdates
    /\ m \in {"think", "ponder"}
    /\ m = "think" => (Len(game) < len \/ get_passes(game) >= 2)
    /\ mode' = m
    /\ ctl' = "ur_add"
    /\ nupdates' = nupdates + 1
    /\ UNCHANGED <<game, rootstate, last_rootstate, root, N, root_lock, run,
                   terminate, root_prepared, playouts, positions, maxvisits, maxplayouts, komi, call, advanced, cfg, readers,
                   pcounter, pending, tasks, wpc, wsim, sims, nsims, notes, leaked, prepared_by>>

StartSearch(m) == StartSearchUpTo(m, MaxGameLen)

\* acquire_writer(): m_root_lock += 128
UrAdd ==
    /\ ctl = "ur_add"
    /\ root_lock' = root_lock + WRITER
    /\ ctl' = "ur_spin"
    /\ UNCHANGED <<game, rootstate, last_rootstate, root, N, run, terminate,
                   root_prepared, playouts, positions, maxvisits, maxplayouts, komi, call, advanced, cfg, readers, pcounter,
                   pending, tasks, wpc, wsim, sims, nsims, notes, mode, nupdates, leaked,
                   prepared_by>>

\* A spin that also ends while readers are still counted in.
SpinEndsEarly == root_lock >= WRITER
\* acquire_writer(): while (m_root_lock != 128) {}
WriterMayEnter == root_lock = WRITER

\* acquire_writer(): the spin ends when the counter is exactly 128.
UrSpin ==
    /\ ctl = "ur_spin"
    /\ WriterMayEnter
    /\ ctl' = "ur_cs"
    /\ UNCHANGED <<game, rootstate, last_rootstate, root, N, root_lock, run,
                   terminate, root_prepared, playouts, positions, maxvisits, maxplayouts, komi, call, advanced, cfg, readers,
                   pcounter, pending, tasks, wpc, wsim, sims, nsims, notes, mode, nupdates,
                   leaked, prepared_by>>

\* update_root() under the writer lock, lines 207-270: the root state is
\* replaced, the root advanced or renewed, the delete task scheduled, the
\* counters reset, a new pending counter installed.
UrCritical ==
    /\ ctl = "ur_cs"
    /\ LET adv == advance_to_new_rootstate(game)
           del == IF ~adv.ok /\ adv.root # 0 THEN Append(adv.del, adv.root)
                  ELSE adv.del
           scheduled == pcounter # 0 /\ del # <<>>
       IN
       /\ rootstate' = game
       /\ N' = IF adv.ok THEN adv.N ELSE Append(adv.N, NewNode(PASS))
       /\ root' = IF adv.ok THEN adv.root ELSE Len(adv.N) + 1
       /\ tasks' = IF scheduled
                   THEN Append(tasks, [nodes |-> del, counter |-> pcounter,
                                       done |-> FALSE])
                   ELSE tasks
       /\ leaked' = IF scheduled THEN leaked ELSE leaked \cup Range(del)
       /\ advanced' = [ok |-> adv.ok, why |-> adv.why,
                        depth |-> IF last_rootstate = NoState THEN 0
                                  ELSE Len(game) - Len(last_rootstate)]
    /\ last_rootstate' = NoState
    /\ komi' = [komi EXCEPT !.r = komi.g]
    /\ playouts' = 0
    /\ positions' = 0
    /\ pending' = Append(pending, 0)
    /\ pcounter' = Len(pending) + 1
    /\ root_prepared' = FALSE
    /\ ctl' = "ur_release"
    /\ UNCHANGED <<game, root_lock, run, terminate, maxvisits, maxplayouts, call, cfg,
                   readers, wpc, wsim, sims, nsims, notes, mode, nupdates, prepared_by>>

\* release_writer(): m_root_lock -= 128
UrRelease ==
    /\ ctl = "ur_release"
    /\ root_lock' = root_lock - WRITER
    /\ ctl' = "ur_notify"
    /\ UNCHANGED <<game, rootstate, last_rootstate, root, N, run, terminate,
                   root_prepared, playouts, positions, maxvisits, maxplayouts, komi, call, advanced, cfg, readers, pcounter,
                   pending, tasks, wpc, wsim, sims, nsims, notes, mode, nupdates, leaked,
                   prepared_by>>

\* m_run = true; m_cv.notify_all()
UrNotify ==
    /\ ctl = "ur_notify"
    /\ run' = TRUE
    /\ wpc' = [w \in Workers |->
                  IF wpc[w] = "cv_blocked" THEN "cv_check" ELSE wpc[w]]
    /\ ctl' = "ur_wait"
    /\ UNCHANGED <<game, rootstate, last_rootstate, root, N, root_lock,
                   terminate, root_prepared, playouts, positions, maxvisits, maxplayouts, komi, call, advanced, cfg, readers,
                   pcounter, pending, tasks, wsim, sims, nsims, notes, mode, nupdates, leaked,
                   prepared_by>>

\* while (!m_root_prepared) sleep: update_root returns into think or ponder.
UrWait ==
    /\ ctl = "ur_wait"
    /\ root_prepared
    /\ ctl' = IF mode = "think" THEN "think_loop" ELSE "ponder_loop"
    /\ UNCHANGED <<game, rootstate, last_rootstate, root, N, root_lock, run,
                   terminate, root_prepared, playouts, positions, maxvisits, maxplayouts, komi, call, advanced, cfg, readers,
                   pcounter, pending, tasks, wpc, wsim, sims, nsims, notes, mode, nupdates,
                   leaked, prepared_by>>

\* The moves think() can return at the root: a valid child's move.
RootMoves == {N[c].move : c \in ValidChildren(N, root)}

\* think() leaves its loop at a progress check that clears keeprunning (the
\* time budget may end at any check), returns PASS for a root without
\* children and else a root child's move, recorded with the root state; GTP
\* plays the move.
ThinkEnd(m) ==
    /\ ctl = "think_loop"
    /\ \E out_of_time, alt \in BOOLEAN : ~keeprunning(out_of_time, alt)
    /\ IF N[root].children = {}
       THEN m = PASS /\ UNCHANGED <<last_rootstate, komi>>
       ELSE /\ m \in RootMoves
            /\ ~(m # PASS /\ superko(Append(game, m)))
            /\ last_rootstate' = rootstate
            /\ komi' = [komi EXCEPT !.l = komi.r]
    /\ game' = Append(game, m)
    /\ ctl' = "idle"
    /\ UNCHANGED <<rootstate, root, N, root_lock, run, terminate, root_prepared,
                   playouts, positions, maxvisits, maxplayouts, call, advanced, cfg, readers, pcounter, pending, tasks,
                   wpc, wsim, sims, nsims, notes, mode, nupdates, leaked, prepared_by>>

\* A ponder that always stops the search on return.
stops_search == FALSE

\* ponder(): keeprunning after one pass of its loop.
ponder_keeprunning == is_running /\ ~stop_thinking(FALSE)

\* ponder() leaves its loop (input pending, or the search has stopped):
\* m_run = keeprunning, and the root state is recorded.
PonderEnd ==
    /\ ctl = "ponder_loop"
    /\ run' = ponder_keeprunning
    /\ last_rootstate' = rootstate
    /\ komi' = [komi EXCEPT !.l = komi.r]
    /\ ctl' = "idle"
    /\ UNCHANGED <<game, rootstate, root, N, root_lock, terminate, root_prepared,
                   playouts, positions, maxvisits, maxplayouts, call, advanced, cfg, readers, pcounter, pending, tasks,
                   wpc, wsim, sims, nsims, notes, mode, nupdates, leaked, prepared_by>>

\* ~UCTSearch: m_terminate = true, m_network.destruct() wakes the threads
\* waiting on the condition variable, and the destructor waits for the
\* delete tasks.
Destruct ==
    /\ ctl = "idle" /\ ~terminate
    /\ terminate' = TRUE
    /\ wpc' = [w \in Workers |->
                  IF wpc[w] = "cv_blocked" THEN "cv_check" ELSE wpc[w]]
    /\ ctl' = "destructing"
    /\ UNCHANGED <<game, rootstate, last_rootstate, root, N, root_lock, run,
                   root_prepared, playouts, positions, maxvisits, maxplayouts, komi,
                   call, advanced, cfg, readers, pcounter, pending, tasks, wsim, sims,
                   nsims, notes, mode, nupdates, leaked, prepared_by>>

\* ------------------------------------------------------------- specification
Next ==
    \/ \E w \in Workers : SearchEnter(w)
    \/ \E w \in Workers : ReaderAdd(w)
    \/ \E w \in Workers : ReaderUndo(w)
    \/ \E w \in Workers : ReaderSpin(w)
    \/ \E w \in Workers : ReaderRelease(w)
    \/ \E w \in Workers : CvCheck(w)
    \/ \E w \in Workers : SimTerminal(w)
    \/ \E w \in Workers : SimWrite(w)
    \/ \E w \in Workers : SimFail(w)
    \/ \E w \in Workers : \E c \in DOMAIN N : SimRead(w, c)
    \/ \E w \in Workers : \E c \in DOMAIN N : SimSuperko(w, c)
    \/ \E w \in Workers : SimBackup(w)
    \/ \E s \in DOMAIN sims : CbExpand(s)
    \/ \E s \in DOMAIN sims : CbBackup(s)
    \/ \E t \in DOMAIN tasks : DeleteTask(t)
    \/ \E s \in DOMAIN sims : UseAfterFree(s)
    \/ \E m \in Moves : GtpPlay(m)
    \/ \E m \in {"think", "ponder"} : StartSearch(m)
    \/ UrAdd
    \/ UrSpin
    \/ UrCritical
    \/ UrRelease
    \/ UrNotify
    \/ UrWait
    \/ \E m \in Moves : ThinkEnd(m)
    \/ PonderEnd

Spec == Init /\ [][Next]_vars

\* GTP commands arrive between searches: no simulation is in flight, so
\* none outlives its tree.
BetweenSearches == InFlight = {}

\* One search thread and GameSims simulations (too few for a BACKUP action),
\* game records of up to DeepGameLen moves, undo and komi: the root updates
\* that follow a GTP history.
GameNext ==
    \/ SearchEnterWithin(1, Budget(GameSims))
    \/ ReaderAdd(1)
    \/ ReaderUndo(1)
    \/ ReaderSpin(1)
    \/ ReaderRelease(1)
    \/ CvCheck(1)
    \/ SimTerminal(1)
    \/ SimWrite(1)
    \/ SimFail(1)
    \/ \E c \in DOMAIN N : SimRead(1, c)
    \/ \E c \in DOMAIN N : SimSuperko(1, c)
    \/ \E s \in DOMAIN sims : CbExpand(s)
    \/ \E s \in DOMAIN sims : CbBackup(s)
    \/ \E t \in DOMAIN tasks : DeleteTask(t)
    \/ BetweenSearches /\ \E m \in Moves : GtpPlayUpTo(m, DeepGameLen)
    \/ BetweenSearches /\ GtpUndo
    \/ BetweenSearches /\ \E k \in Komis : GtpKomi(k)
    \/ BetweenSearches /\ \E m \in {"think", "ponder"} : StartSearchUpTo(m, DeepGameLen)
    \/ UrAdd
    \/ UrSpin
    \/ UrCritical
    \/ UrRelease
    \/ UrNotify
    \/ UrWait
    \/ \E m \in Moves : ThinkEnd(m)
    \/ PonderEnd

GameSpec == Init /\ [][GameNext]_vars

\* A search whose tree may hold SmallTree nodes only, and its end: the cap
\* is reached by the first expansions, and the search is destructed.
CapInit ==
    /\ Constructed
    /\ maxvisits = UNLIMITED_PLAYOUTS /\ maxplayouts = UNLIMITED_PLAYOUTS
    /\ call = NoCall
    /\ cfg = Configured(SmallTree)

\* (No simulation meets a BACKUP action in so small a tree.)
CapNext ==
    \/ \E w \in Workers : SearchEnter(w)
    \/ \E w \in Workers : WorkerExit(w)
    \/ \E w \in Workers : ReaderAdd(w)
    \/ \E w \in Workers : ReaderUndo(w)
    \/ \E w \in Workers : ReaderSpin(w)
    \/ \E w \in Workers : ReaderRelease(w)
    \/ \E w \in Workers : CvCheck(w)
    \/ \E w \in Workers : SimTerminal(w)
    \/ \E w \in Workers : SimWrite(w)
    \/ \E w \in Workers : SimFail(w)
    \/ \E w \in Workers : \E c \in DOMAIN N : SimRead(w, c)
    \/ \E w \in Workers : \E c \in DOMAIN N : SimSuperko(w, c)
    \/ \E s \in DOMAIN sims : CbExpand(s)
    \/ \E s \in DOMAIN sims : CbBackup(s)
    \/ \E t \in DOMAIN tasks : DeleteTask(t)
    \/ \E s \in DOMAIN sims : UseAfterFree(s)
    \/ \E m \in Moves : GtpPlay(m)
    \/ \E m \in {"think", "ponder"} : StartSearch(m)
    \/ UrAdd
    \/ UrSpin
    \/ UrCritical
    \/ UrRelease
    \/ UrNotify
    \/ UrWait
    \/ \E m \in Moves : ThinkEnd(m)
    \/ PonderEnd
    \/ Destruct

CapSpec == CapInit /\ [][CapNext]_vars

\* ------------------------------------------------------------- best move
\* Winrates, in percent.
Evals == {4, 8, 10, 12, 50, 60}

\* get_nopass_child() == nullptr
NoChild == [move |-> -1, first_visit |-> TRUE, eval |-> 0]

\* Root children with one of the moves: unvisited, or visited with a winrate.
Children(moves) ==
    {[move |-> m, first_visit |-> TRUE, eval |-> 0] : m \in moves}
        \cup {[move |-> m, first_visit |-> FALSE, eval |-> e] : m \in moves, e \in Evals}

\* The result slot of a call not made yet.
NoResult == [chosen |-> PASS, besteval |-> 0, move |-> PASS]

\* The get_best_move calls considered: the pass flags, cfg_dumbpass, the
\* first root child after the sort, the best non-pass child behind a first
\* child that is PASS (if any), the sign of the final score for the side
\* to move, whether the last move was a pass, cfg_resignpct, the move
\* number, the handicap and the side to move.
Calls ==
    {c \in [made : {FALSE}, passflag : SUBSET {"NOPASS", "NORESIGN"},
            dumbpass : BOOLEAN, first : Children(Moves),
            other : Children({STONE}) \cup {NoChild}, score : {-1, 0, 1},
            last_pass : BOOLEAN, resignpct : {-1, 0, 20}, movenum : {2, 3, 5, 6},
            handicap : {0, 2}, white : BOOLEAN, result : {NoResult}] :
        c.first.move # PASS => c.other = NoChild}

\* UCTNode::get_nopass_child: the best child that is not a pass.
get_nopass_child(c) == IF c.first.move # PASS THEN c.first ELSE c.other

\* num_intersections and the 0.6f * num_intersections of the blend, times 10.
num_intersections == BoardSize * BoardSize
BlendSpan == 6 * num_intersections

\* A test that lets the move at the threshold resign.
BeforeThreshold(movenum) == movenum < num_intersections \div 4
\* movenum <= move_threshold: too early in the game to resign
TooEarly(movenum) == movenum <= num_intersections \div 4

\* besteval > blended_resign_threshold, with blend_ratio =
\* min(1, movenum / (0.6 * num_intersections)) and handicap_resign_threshold
\* = resign_threshold / (1 + handicap), cleared of fractions.
AboveBlend(besteval, resign_threshold, handicap, movenum) ==
    LET m10 == IF 10 * movenum < BlendSpan THEN 10 * movenum ELSE BlendSpan IN
    besteval * BlendSpan * (1 + handicap)
        > resign_threshold * (m10 * (1 + handicap) + (BlendSpan - m10))

\* A resign rule that always resigns.
AlwaysResign(c, besteval) == TRUE
\* UCTSearch::should_resign(passflag, besteval), winrates in percent.
should_resign(c, besteval) ==
    IF "NORESIGN" \in c.passflag THEN FALSE
    ELSE IF c.resignpct = 0 THEN FALSE
    ELSE IF TooEarly(c.movenum) THEN FALSE
    ELSE LET is_default_cfg_resign == c.resignpct < 0
             resign_threshold == IF is_default_cfg_resign THEN 10 ELSE c.resignpct
         IN
         IF besteval > resign_threshold THEN FALSE
         ELSE IF c.handicap > 0 /\ c.white /\ is_default_cfg_resign
              THEN ~AboveBlend(besteval, resign_threshold, c.handicap, c.movenum)
              ELSE TRUE

\* A substitution that is made only for a visited child.
VisitedChild(nopass) == nopass # NoChild /\ ~nopass.first_visit
\* nopass != nullptr
Found(nopass) == nopass # NoChild

\* A score test that never sees a win.
NeverWins(score) == FALSE
\* relative_score > 0.0f
PassingWins(score) == score > 0

\* UCTSearch::get_best_move(passflag): the move chosen by the pass rules,
\* its evaluation, and the move returned after the resign rule.
get_best_move(c) ==
    LET first == [move |-> c.first.move,
                  eval |-> IF c.first.first_visit THEN 50 ELSE c.first.eval]
        nopass == get_nopass_child(c)
        sub == [move |-> nopass.move,
                eval |-> IF nopass.first_visit THEN 100 ELSE nopass.eval]
        pass == [first EXCEPT !.move = PASS]
        best ==
            IF "NOPASS" \in c.passflag
            THEN IF first.move = PASS /\ Found(nopass) THEN sub ELSE first
            ELSE IF c.dumbpass THEN first
            ELSE IF first.move = PASS
            THEN IF c.score < 0
                 THEN IF Found(nopass) THEN sub ELSE first
                 ELSE IF PassingWins(c.score) THEN first
                 ELSE IF Found(nopass) /\ ~nopass.first_visit /\ nopass.eval > 50
                      THEN sub
                      ELSE first
            ELSE IF c.last_pass
            THEN IF c.score < 0 THEN first
                 ELSE IF PassingWins(c.score) THEN pass
                 ELSE IF first.eval < 50 THEN pass ELSE first
            ELSE first
    IN [chosen |-> best.move, besteval |-> best.eval,
        move |-> IF best.move # PASS /\ should_resign(c, best.eval)
                 THEN RESIGN ELSE best.move]

\* think(): int bestmove = get_best_move(passflag); return bestmove
BestMove ==
    /\ ~call.made /\ call \in Calls
    /\ call' = [call EXCEPT !.made = TRUE, !.result = get_best_move(call)]
    /\ UNCHANGED <<game, rootstate, last_rootstate, root, N, root_lock, run,
                   terminate, root_prepared, playouts, positions, maxvisits,
                   maxplayouts, komi, advanced, cfg, readers, pcounter, pending, tasks, wpc, wsim,
                   sims, nsims, notes, ctl, mode, nupdates, leaked, prepared_by>>

\* The search as constructed, about to answer one get_best_move call.
MoveInit ==
    /\ Constructed
    /\ maxvisits = UNLIMITED_PLAYOUTS /\ maxplayouts = UNLIMITED_PLAYOUTS
    /\ call \in Calls
    /\ cfg = Configured(MaxTreeSize)

MoveNext == BestMove

MoveSpec == MoveInit /\ [][MoveNext]_vars

\* ------------------------------------------------------------- more readers
\* The root lock under many search threads.  Of a further thread only its
\* part in acquire_reader and release_reader is kept: it has passed the load
\* at a time the counter was below 128 and now executes fetch_add(1).
AnonAdd ==
    /\ readers.holding + readers.undoing < MaxReaders
    /\ root_lock' = root_lock + 1
    /\ readers' = IF root_lock >= WRITER
                  THEN [readers EXCEPT !.undoing = @ + 1]
                  ELSE [readers EXCEPT !.holding = @ + 1]
    /\ UNCHANGED <<game, rootstate, last_rootstate, root, N, run, terminate,
                   root_prepared, playouts, positions, maxvisits, maxplayouts, komi,
                   call, advanced, cfg, pcounter, pending, tasks, wpc, wsim, sims,
                   nsims, notes, ctl, mode, nupdates, leaked, prepared_by>>

\* acquire_reader(): --m_root_lock after a fetch_add that met the writer.
AnonUndo ==
    /\ readers.undoing > 0
    /\ root_lock' = root_lock - 1
    /\ readers' = [readers EXCEPT !.undoing = @ - 1]
    /\ UNCHANGED <<game, rootstate, last_rootstate, root, N, run, terminate,
                   root_prepared, playouts, positions, maxvisits, maxplayouts, komi,
                   call, advanced, cfg, pcounter, pending, tasks, wpc, wsim, sims,
                   nsims, notes, ctl, mode, nupdates, leaked, prepared_by>>

\* release_reader()
AnonRelease ==
    /\ readers.holding > 0
    /\ root_lock' = root_lock - 1
    /\ readers' = [readers EXCEPT !.holding = @ - 1]
    /\ UNCHANGED <<game, rootstate, last_rootstate, root, N, run, terminate,
                   root_prepared, playouts, positions, maxvisits, maxplayouts, komi,
                   call, advanced, cfg, pcounter, pending, tasks, wpc, wsim, sims,
                   nsims, notes, ctl, mode, nupdates, leaked, prepared_by>>

\* The readers and the writer of the root lock: up to MaxReaders threads in
\* acquire_reader and release_reader, and one update_root.
LockNext ==
    \/ AnonAdd
    \/ AnonUndo
    \/ AnonRelease
    \/ \E m \in {"think", "ponder"} : StartSearch(m)
    \/ UrAdd
    \/ UrSpin
    \/ UrCritical
    \/ UrRelease
    \/ UrNotify

LockSpec == Init /\ [][LockNext]_vars

\* ------------------------------------------------------------- memory settings
\* remove_overhead(s): the share of s left after a tenth of overhead.
remove_overhead(size) == (size * 10) \div 11

\* A refusal that has already stored the tree size it computed.
refused_after_store(message) ==
    [ok |-> FALSE, message |-> message,
     cfg |-> [cfg EXCEPT !.max_tree_size = 0]]

\* set_max_memory: return std::make_pair(false, message)
refused(message) ==
    [ok |-> FALSE, message |-> message, cfg |-> cfg]

\* GTP::set_max_memory(max_memory, cache_size_ratio_percent): the pair it
\* returns and the configuration it leaves.
set_max_memory(max_memory, cache_size_ratio_percent) ==
    LET memory == IF max_memory = 0 THEN DEFAULT_MAX_MEMORY ELSE max_memory
        base_memory == cfg.base_memory
        max_memory_for_search == memory - base_memory
        max_cache_size ==
            (max_memory_for_search * cache_size_ratio_percent) \div 100
        max_cache_count == remove_overhead(max_cache_size) \div ENTRY_SIZE
        max_tree_size == max_memory_for_search - max_cache_size
    IN IF memory < base_memory
       THEN refused("Not enough memory for network.")
       ELSE IF max_cache_count < MIN_CACHE_COUNT
       THEN refused("Not enough memory for cache.")
       ELSE IF max_tree_size < MIN_TREE_SPACE
       THEN refused("Not enough memory for search tree.")
       ELSE [ok |-> TRUE, message |-> "Setting max tree size and cache size.",
             cfg |-> [cfg EXCEPT
                        !.max_memory = memory,
                        !.max_cache_ratio_percent = cache_size_ratio_percent,
                        !.max_tree_size = remove_overhead(max_tree_size),
                        !.cache_size = max_cache_count]]

\* The memory settings lz-setoption accepts, and the cache ratios.
Memories == 1..MaxMemory
Ratios == {1, 10, 50, 90, 99}
\* The estimated sizes of the networks tried.
Networks == {4, 70}

\* Everything but the configuration and the call under study.
searchvars == <<game, rootstate, last_rootstate, root, N, root_lock, run, terminate,
                root_prepared, playouts, positions, maxvisits, maxplayouts, komi,
                advanced, readers, pcounter, pending, tasks, wpc, wsim, sims, nsims,
                notes, ctl, mode, nupdates, leaked, prepared_by>>

\* The outcome of a set_max_memory call, as its caller sees it.
Outcome(from, r, thrown) ==
    [made |-> TRUE, from |-> from, ok |-> r.ok, message |-> r.message,
     stage |-> IF thrown THEN "thrown" ELSE "ready"]

\* GTP::initialize: the memory is sized from the configured values; a failure
\* is thrown as a runtime_error.
Initialize ==
    /\ ~call.made
    /\ LET r == set_max_memory(cfg.max_memory, cfg.max_cache_ratio_percent) IN
       /\ cfg' = r.cfg
       /\ call' = Outcome("initialize", r, ~r.ok)
    /\ UNCHANGED searchvars

\* lz-setoption name maximum memory use (mib) value memory
SetMemory(memory) ==
    /\ call.made /\ call.stage = "ready"
    /\ LET r == set_max_memory(memory, cfg.max_cache_ratio_percent) IN
       /\ cfg' = r.cfg
       /\ call' = Outcome("setoption", r, FALSE)
    /\ UNCHANGED searchvars

\* lz-setoption name percentage of memory for cache value percent
SetCacheRatio(percent) ==
    /\ call.made /\ call.stage = "ready"
    /\ LET r == set_max_memory(cfg.max_memory, percent) IN
       /\ cfg' = r.cfg
       /\ call' = Outcome("setoption", r, FALSE)
    /\ UNCHANGED searchvars

\* The program before GTP::initialize: the defaults, or a memory limit and a
\* cache ratio from the command line, and a network loaded.
MemInit ==
    /\ Constructed
    /\ maxvisits = UNLIMITED_PLAYOUTS /\ maxplayouts = UNLIMITED_PLAYOUTS
    /\ call = NoCall
    /\ \E base \in Networks, memory \in {0, 30}, percent \in {10, 99} :
           cfg = [Defaults(base) EXCEPT !.max_memory = memory,
                                        !.max_cache_ratio_percent = percent]

MemNext ==
    \/ Initialize
    \/ \E memory \in Memories : SetMemory(memory)
    \/ \E percent \in Ratios : SetCacheRatio(percent)

MemSpec == MemInit /\ [][MemNext]_vars

\* ------------------------------------------------------------- pruning
Min(a, b) == IF a < b THEN a ELSE b
Max(a, b) == IF a > b THEN a ELSE b

\* What the playout rate and the time left allow: -1 before a rate is known
\* (elapsed_centis < 100 or playouts < 100), else ceil(rate * time_left).
Timed == {-1, 0, 1}

\* UCTSearch::est_playouts_left(elapsed_centis, time_for_move)
est_playouts_left(timed) ==
    LET playouts_left ==
            Max(0, Min(maxplayouts - playouts, maxvisits - N[root].visits))
    IN IF timed < 0 THEN playouts_left ELSE Min(playouts_left, timed)

\* A pruning rule under which no child has enough visits.
NoneHasEnough(visits, min_required_visits) == FALSE

\* prune_noncontenders: has_enough_visits
has_enough_visits(visits, min_required_visits) ==
    visits >= min_required_visits

\* UCTSearch::prune_noncontenders(elapsed_centis, time_for_move, prune):
\* the tree after set_active, and pruned_nodes.
prune_noncontenders(timed, prune) ==
    LET valid == ValidChildren(N, root)
        Nfirst == IF valid = {} THEN 0
                  ELSE CHOOSE v \in {N[c].visits : c \in valid} :
                           \A c \in valid : N[c].visits <= v
        min_required_visits == Nfirst - est_playouts_left(timed)
        enough(c) == has_enough_visits(N[c].visits, min_required_visits)
    IN [N |-> [n \in DOMAIN N |->
                  IF prune /\ n \in valid
                  THEN [N[n] EXCEPT !.active = enough(n)] ELSE N[n]],
        pruned |-> Cardinality({c \in valid : ~enough(c)})]

\* UCTSearch::have_alternate_moves(elapsed_centis, time_for_move): the tree
\* it leaves and its result.
have_alternate_moves(timed, can_accumulate_time) ==
    IF cfg.timemanage = "OFF" \/ N[root].children = {}
    THEN [N |-> N, result |-> TRUE]
    ELSE LET p == prune_noncontenders(timed, cfg.timemanage # "NO_PRUNING")
         IN [N |-> p.N,
             result |->
                 \/ p.pruned < Cardinality(N[root].children) - 1
                 \/ /\ ~can_accumulate_time \/ maxplayouts < UNLIMITED_PLAYOUTS
                    /\ cfg.timemanage # "FAST"]

\* think() on leaving its loop: no root child stays pruned.
leave_pruned(NN) == NN

\* think() on leaving its loop: node->set_active(true) for every root child.
reactivate(NN) ==
    [n \in DOMAIN NN |->
        IF n \in NN[root].children THEN [NN[n] EXCEPT !.active = TRUE]
        ELSE NN[n]]

\* A searched root: child i is reached by move i - 1 and has kids[i].visits
\* visits; the root was visited once by its expansion and once with every
\* visit of a child.
RECURSIVE SumVisits(_)
SumVisits(kids) ==
    IF kids = <<>> THEN 0 ELSE kids[1].visits + SumVisits(Tail(kids))

Searched(kids) ==
    [n \in 1..(Len(kids) + 1) |->
        IF n = 1
        THEN [NewNode(PASS) EXCEPT !.children = 2..(Len(kids) + 1),
                                   !.visits = 1 + SumVisits(kids),
                                   !.st = "READY"]
        ELSE [NewNode(n - 2) EXCEPT !.visits = kids[n - 1].visits,
                                    !.st = IF ~kids[n - 1].valid THEN "INVALID"
                                           ELSE IF kids[n - 1].visits > 0
                                           THEN "READY" ELSE "IDLE"]]

Kids ==
    UNION {[1..k -> [visits : 0..MaxChildVisits, valid : BOOLEAN]] :
               k \in 0..MaxChildren}

TimeManagement == {"OFF", "ON", "FAST", "NO_PRUNING", "AUTO"}

\* think() in its loop over a searched root.  The search threads are left
\* out: the visits they add arrive through MoreVisits.
PruneInit ==
    /\ game = <<>>
    /\ rootstate = <<>>
    /\ last_rootstate = NoState
    /\ \E kids \in Kids : N = Searched(kids)
    /\ root = 1
    /\ root_lock = 0
    /\ run = TRUE
    /\ terminate = FALSE
    /\ root_prepared = TRUE
    /\ playouts = 0
    /\ positions = 0
    /\ \E lim \in Limits : maxvisits = lim[1] /\ maxplayouts = lim[2]
    /\ komi = [g |-> 0, r |-> 0, l |-> 0]
    /\ \E acc \in BOOLEAN :
           call = [made |-> FALSE, can_accumulate_time |-> acc, stage |-> "loop",
                   checks |-> 0, result |-> TRUE, left |-> 0, pruned |-> FALSE]
    /\ advanced = [ok |-> FALSE, depth |-> 0, why |-> "none"]
    /\ \E tm \in TimeManagement :
           cfg = [Configured(MaxTreeSize) EXCEPT !.timemanage = tm]
    /\ readers = [holding |-> 0, undoing |-> 0]
    /\ pcounter = 1
    /\ pending = <<0>>
    /\ tasks = <<>>
    /\ wpc = [w \in Workers |-> "idle"]
    /\ wsim = [w \in Workers |-> 0]
    /\ sims = <<>>
    /\ nsims = 0
    /\ failed = {}
    /\ overby = {}
    /\ contested = {}
    /\ ctl = "think_loop"
    /\ mode = "think"
    /\ nupdates = 1
    /\ leaked = {}
    /\ prepared_by = 1

\* A simulation of a search thread ends: a visit for a valid, active root
\* child and for the root.
MoreVisits(c) ==
    /\ ctl = "think_loop" /\ call.stage = "loop"
    /\ c \in ValidChildren(N, root) /\ N[c].active
    /\ N[c].visits < MaxChildVisits
    /\ N' = [N EXCEPT ![c].visits = @ + 1, ![root].visits = @ + 1]
    /\ UNCHANGED <<game, rootstate, last_rootstate, root, root_lock, run, terminate,
                   root_prepared, playouts, positions, maxvisits, maxplayouts, komi,
                   call, advanced, cfg, readers, pcounter, pending, tasks, wpc, wsim,
                   sims, nsims, notes, ctl, mode, nupdates, leaked, prepared_by>>

\* think(): one progress check.  have_alternate_moves prunes, and the loop
\* goes on if keeprunning.
PruneCheck(timed, out_of_time) ==
    /\ ctl = "think_loop" /\ call.stage = "loop"
    /\ LET alt == have_alternate_moves(timed, call.can_accumulate_time) IN
       /\ N' = alt.N
       /\ call' = [call EXCEPT
              !.checks = 1,
              !.result = alt.result,
              !.left = est_playouts_left(timed),
              !.pruned = @ \/ \E c \in N[root].children : ~alt.N[c].active,
              !.stage = IF keeprunning(out_of_time, alt.result)
                        THEN "loop" ELSE "exit"]
    /\ UNCHANGED <<game, rootstate, last_rootstate, root, root_lock, run, terminate,
                   root_prepared, playouts, positions, maxvisits, maxplayouts, komi,
                   advanced, cfg, readers, pcounter, pending, tasks, wpc, wsim,
                   sims, nsims, notes, ctl, mode, nupdates, leaked, prepared_by>>

\* think() after its loop: the root children are reactivated, then the best
\* move is computed and think returns.
Reactivate ==
    /\ ctl = "think_loop" /\ call.stage = "exit"
    /\ N' = reactivate(N)
    /\ call' = [call EXCEPT !.stage = "returned"]
    /\ ctl' = "idle"
    /\ UNCHANGED <<game, rootstate, last_rootstate, root, root_lock, run, terminate,
                   root_prepared, playouts, positions, maxvisits, maxplayouts, komi,
                   advanced, cfg, readers, pcounter, pending, tasks, wpc, wsim,
                   sims, nsims, notes, mode, nupdates, leaked, prepared_by>>

PruneNext ==
    \/ \E c \in DOMAIN N : MoreVisits(c)
    \/ \E timed \in Timed : \E out_of_time \in BOOLEAN : PruneCheck(timed, out_of_time)
    \/ Reactivate

PruneSpec == PruneInit /\ [][PruneNext]_vars

\* ------------------------------------------------------------- properties
\* No simulation is in flight: none on a worker, none awaiting its callback.
Quiescent == InFlight = {}
\* The controller holds the root writer lock (acquire_writer has returned,
\* release_writer has not run).
WriterHolds == ctl \in {"ur_cs", "ur_release"}
\* A worker is between a successful acquire_reader and its release_reader.
ReaderHolds(w) == wpc[w] \in {"rd_rel_go", "rd_rel_wait"}
\* The nodes that have not been deleted.
Live == {n \in DOMAIN N : ~N[n].freed}

\* C1: root-lock mutual exclusion.  While the controller is inside the
\* critical section of update_root, no worker is between a successful
\* acquire_reader and its release_reader.
C1_RootLockExclusion ==
    WriterHolds => \A w \in Workers : ~ReaderHolds(w)

\* The writer is in its critical section after simulations have run, while a
\* worker whose fetch_add met the writer's 128 is about to back off.
C1_Witness ==
    /\ ctl = "ur_cs"
    /\ nsims >= 1
    /\ \E w \in Workers : wpc[w] = "rd_undo"

\* C2: virtual-loss conservation per simulation.  A unit a simulation put on
\* a node stays there only while the simulation is in flight or, after a FAIL
\* return, until the expanding writer unwinds it; no unit is ever taken off
\* on behalf of a simulation that has none there; and once nothing is in
\* flight no simulation has a unit left on any node.
C2_VirtualLossConserved ==
    /\ \A n \in DOMAIN N : \A s \in N[n].owed : s \in InFlight \/ s \in failed
    /\ overby = {}
    /\ Quiescent => \A n \in DOMAIN N : N[n].owed = {}

\* C3: virtual_loss is never negative, and it is 0 on every node that has
\* not been freed whenever no simulation is in flight.
C3_VirtualLossZeroAtQuiescence ==
    /\ \A n \in DOMAIN N : N[n].vl >= 0
    /\ Quiescent => \A n \in Live : N[n].vl = 0

\* C4: the visits of every node equal the number of completed backups whose
\* recorded path contained the node; selection, a FAIL return,
\* failed_simulation and a repeated root preparation add none.
C4_VisitsAreBackups ==
    \A n \in DOMAIN N : N[n].visits = N[n].nbk

\* A node has been backed up through twice, while one simulation returned on
\* FAIL and another invalidated a child on a superko hit.
C4_Witness ==
    /\ \E n \in DOMAIN N : N[n].visits >= 2
    /\ failed # {}
    /\ \E c \in DOMAIN N : N[c].st = "INVALID"

\* C5: a writer expands an unvisited node on which one or more other
\* simulations returned FAIL.  Once the writer's callback has finished and
\* nothing is in flight, the node was left with one visit and neither it nor
\* any node of the recorded path carries virtual loss.
C5_ContestedExpansionSettles ==
    Quiescent =>
        \A c \in contested :
            /\ c.visits = 1
            /\ \A n \in Range(c.path) : N[n].vl = 0

\* C6: no delete task frees a node that a simulation in flight still points
\* to (its start root, a node of its recorded path, the node it is at).
C6_NoFreeWhileReferenced ==
    \A s \in InFlight : \A n \in Refs(s) : ~N[n].freed

\* C7: once every simulation has finished, the wait of every scheduled delete
\* task is over, so the task terminates and the destructor's wait returns.
C7_DeleteTaskTerminates ==
    Quiescent => \A t \in DOMAIN tasks : tasks[t].done \/ ~TaskWaits(t)

\* C8: after update_root has replaced the root there is one root, and every
\* node the call detached has been handed to a delete task.
C8_DetachedHandedToTask ==
    ctl \notin {"ur_add", "ur_spin", "ur_cs"} =>
        /\ root \in DOMAIN N
        /\ leaked = {}

\* C9: update_root terminates.  While it waits for m_root_prepared,
\* something can still make progress towards preparing the root: a
\* simulation is in flight, or some worker is not asleep on the condition
\* variable.
C9_UpdateRootTerminates ==
    (ctl = "ur_wait" /\ ~root_prepared) =>
        \/ InFlight # {}
        \/ \E w \in Workers : wpc[w] \notin {"cv_blocked", "exited"}

\* C10: when m_root_prepared is true, the present root has children and the
\* callback that set the flag targeted the present root.
C10_PreparedMeansCurrentRoot ==
    root_prepared => (prepared_by = root /\ N[root].children # {})

\* ------------------------------------------------------------- root advance
\* The moves played since the last root state was recorded.
Played == SubSeq(game, Len(last_rootstate) + 1, Len(game))

\* The game record continues the last root state, under the same komi.
Continues ==
    /\ last_rootstate # NoState
    /\ komi.g = komi.l
    /\ Len(game) >= Len(last_rootstate)
    /\ SubSeq(game, 1, Len(last_rootstate)) = last_rootstate

\* The node reached from r by the moves, 0 if some move has no child.
RECURSIVE Follow(_, _)
Follow(r, moves) ==
    IF moves = <<>> THEN r
    ELSE LET next == {c \in N[r].children : N[c].move = Head(moves)} IN
         IF next = {} THEN 0
         ELSE Follow(CHOOSE c \in next : TRUE, Tail(moves))

\* The nodes update_root puts on its delete list in this step: those of the
\* task it schedules, or those it drops when it schedules none.
Discarded ==
    (IF Len(tasks') > Len(tasks) THEN Range(tasks'[Len(tasks')].nodes) ELSE {})
        \cup (leaked' \ leaked)

\* C11: update_root on a game record equal to the last root state (same
\* komi, no move played) leaves the root and every node as they were,
\* schedules nothing for deletion and resets playouts and positions to 0.
C11_AdvanceByZeroKeepsTree ==
    [][(UrCritical /\ Continues /\ Played = <<>>) =>
          /\ root' = root
          /\ N' = N
          /\ tasks' = tasks
          /\ leaked' = leaked
          /\ playouts' = 0
          /\ positions' = 0]_vars

\* A root update that advanced by no move and kept a searched tree.
C11_Witness ==
    /\ ctl = "ur_release"
    /\ advanced.ok /\ advanced.depth = 0
    /\ N[root].visits > 0 /\ N[root].children # {}
    /\ playouts = 0 /\ positions = 0

C14_VisitCapExact ==
    (mode = "think" /\ nupdates = 1 /\ maxvisits = VisitCap) =>
        N[root].visits <= maxvisits

\* C15: think with a playout limit of 0 returns a move.  While its
\* update_root waits for m_root_prepared, a simulation is in flight or some
\* worker is not asleep on the condition variable.
C15_ZeroPlayoutThinkReturns ==
    (mode = "think" /\ maxplayouts = 0 /\ ctl = "ur_wait" /\ ~root_prepared) =>
        \/ InFlight # {}
        \/ \E w \in Workers : wpc[w] \notin {"cv_blocked", "exited"}

\* A simulation that can still expand the present root and so prepare it:
\* it stands at the root, or awaits the root's evaluation, and its state is
\* not a finished game.
CanPrepareRoot(s) ==
    /\ sims[s].node = root
    /\ Len(sims[s].path) <= 1
    /\ get_passes(sims[s].state) < 2

\* C16: think returns on a root position whose last two moves were passes.
\* While its update_root waits, the root is prepared or some simulation in
\* flight can still prepare it.
C16_ThinkReturnsAfterTwoPasses ==
    (mode = "think" /\ ctl = "ur_wait" /\ get_passes(rootstate) >= 2) =>
        \/ root_prepared
        \/ \E s \in InFlight : CanPrepareRoot(s)

\* ------------------------------------------------------------- pass and resign
\* A normal game: no NOPASS flag, cfg_dumbpass off.
NormalGame == "NOPASS" \notin call.passflag /\ ~call.dumbpass

\* C17: in a normal game, when the opponent's last move was a pass and
\* passing wins by the final score, get_best_move returns PASS, whatever
\* the first root child and its evaluation are.
C17_PassOutWhenPassingWins ==
    (call.made /\ NormalGame /\ call.last_pass /\ call.score > 0) =>
        call.result.move = PASS

\* Passing out replaced a stone whose evaluation would have meant resigning.
C17_Witness ==
    /\ call.made /\ NormalGame /\ call.last_pass /\ call.score > 0
    /\ call.first.move = STONE /\ ~call.first.first_visit /\ call.first.eval = 4
    /\ call.passflag = {} /\ call.resignpct = -1 /\ call.movenum = 6
    /\ call.result.move = PASS

\* C18 as stated: in a normal game, when the opponent's last move was a
\* pass and passing loses by the final score, the move returned is not PASS,
\* whatever the first root child is.
C18_NoPassWhenPassingLoses ==
    (call.made /\ NormalGame /\ call.last_pass /\ call.score < 0) =>
        call.result.move # PASS

\* C18 amended: in a normal game, when the opponent's last move was a pass,
\* passing loses by the final score and the root has a child that is not a
\* pass, the move returned is not PASS.
C18_NoPassWhenPassingLosesAndAlternative ==
    (call.made /\ NormalGame /\ call.last_pass /\ call.score < 0
         /\ (call.first.move # PASS \/ call.other # NoChild)) =>
        call.result.move # PASS

\* A losing pass on top was replaced by an unvisited stone.
C18_Witness ==
    /\ call.made /\ NormalGame /\ call.last_pass /\ call.score < 0
    /\ call.first.move = PASS
    /\ call.other # NoChild /\ call.other.first_visit
    /\ call.result.move = STONE

\* C19 as stated: with NOPASS set and PASS as the first root child,
\* get_best_move returns the best non-pass child when there is one and PASS
\* when there is none.
C19_NoPassPrefersChild ==
    (call.made /\ "NOPASS" \in call.passflag /\ call.first.move = PASS) =>
        call.result.move = IF call.other # NoChild THEN call.other.move ELSE PASS

\* C19 amended: with NOPASS set and PASS as the first root child,
\* get_best_move chooses the best non-pass child when there is one,
\* whatever the final score is, and returns it or, when resigning is allowed
\* and the child has been visited, RESIGN; it returns PASS when there is no
\* such child.
C19_NoPassPrefersChildOrResigns ==
    (call.made /\ "NOPASS" \in call.passflag /\ call.first.move = PASS) =>
        IF call.other = NoChild THEN call.result.move = PASS
        ELSE /\ call.result.chosen = call.other.move
             /\ call.result.move \in {call.other.move, RESIGN}
             /\ call.result.move = RESIGN =>
                    ("NORESIGN" \notin call.passflag /\ ~call.other.first_visit)

\* Under NOPASS a winning pass on top was replaced by a stone.
C19_Witness ==
    /\ call.made /\ "NOPASS" \in call.passflag /\ call.first.move = PASS
    /\ call.score > 0 /\ call.last_pass
    /\ call.other # NoChild
    /\ call.result.move = STONE

\* The winrate is below the threshold in force: resign_threshold, or for
\* White in a handicap game under the default setting the threshold relaxed
\* by the handicap and blended back over the first 0.6 * board_area moves.
BelowThreshold(c, winrate) ==
    LET plain == IF c.resignpct < 0 THEN 10 ELSE c.resignpct
        h == c.handicap
        span == 6 * BoardSize * BoardSize
        gone == IF 10 * c.movenum > span THEN span ELSE 10 * c.movenum
    IN IF h > 0 /\ c.white /\ c.resignpct < 0
       THEN winrate * span * (1 + h) < plain * (gone * h + span)
       ELSE winrate < plain

\* C20 as stated: the move returned is RESIGN when the chosen move is not
\* PASS, its winrate is below resign_threshold, the move number is past
\* board_area / 4 and NORESIGN is not set.
C20_ResignBelowPlainThreshold ==
    (/\ call.made
     /\ call.result.chosen # PASS
     /\ call.result.besteval < (IF call.resignpct < 0 THEN 10 ELSE call.resignpct)
     /\ 4 * call.movenum > BoardSize * BoardSize
     /\ "NORESIGN" \notin call.passflag) => call.result.move = RESIGN

\* C20 amended: the move returned is RESIGN when the chosen move is not PASS, its
\* winrate is below the resign threshold in force, the move number is past
\* board_area / 4 and NORESIGN is not set; it is never RESIGN when NORESIGN
\* is set, the resign percentage is 0, the move number is at most
\* board_area / 4, or the chosen move is PASS.
C20_ResignRule ==
    call.made =>
        /\ (/\ call.result.chosen # PASS
            /\ BelowThreshold(call, call.result.besteval)
            /\ 4 * call.movenum > BoardSize * BoardSize
            /\ "NORESIGN" \notin call.passflag) => call.result.move = RESIGN
        /\ (\/ "NORESIGN" \in call.passflag
            \/ call.resignpct = 0
            \/ call.movenum <= (BoardSize * BoardSize) \div 4
            \/ call.result.chosen = PASS) => call.result.move # RESIGN

\* White resigned a handicap game under the relaxed threshold.
C20_Witness ==
    /\ call.made /\ call.result.move = RESIGN
    /\ call.handicap > 0 /\ call.white /\ call.resignpct < 0
    /\ call.movenum = 5 /\ call.result.besteval = 8

\* ------------------------------------------------------------- the think loop
\* C21: at a progress check think() leaves its loop exactly if playouts >=
\* max_playouts, or root visits >= max_visits, or elapsed >= budget, or
\* tree_size >= max_tree_size, or have_alternate_moves returned false; it
\* keeps looping when none of them holds.
C21_ThinkLoopExit ==
    ctl = "think_loop" =>
        \A out_of_time, alt \in BOOLEAN :
            ~keeprunning(out_of_time, alt) <=>
                \/ playouts >= maxplayouts
                \/ N[root].visits >= maxvisits
                \/ out_of_time
                \/ tree_size >= cfg_max_tree_size
                \/ ~alt

\* A progress check that only the visit limit ends.
C21_Witness ==
    /\ ctl = "think_loop"
    /\ N[root].visits >= maxvisits /\ playouts < maxplayouts
    /\ tree_size < cfg_max_tree_size
    /\ ~keeprunning(FALSE, TRUE)

\* ------------------------------------------------------------- pruning claims
\* The root children that can still reach the most visited one with the
\* playouts the last check estimated to be left.
Contenders(left) ==
    {c \in ValidChildren(N, root) :
        \A d \in ValidChildren(N, root) : N[c].visits + left >= N[d].visits}

\* C22 (as stated): have_alternate_moves returns false only when at most one
\* root child can still catch up, and returns true for every input when time
\* management is OFF or NO_PRUNING.
C22_NeverStopsWithoutPruning ==
    [][\A timed \in Timed, out_of_time \in BOOLEAN :
          PruneCheck(timed, out_of_time) =>
              /\ ~call'.result => Cardinality(Contenders(call'.left)) <= 1
              /\ cfg.timemanage \in {"OFF", "NO_PRUNING"} => call'.result]_vars

\* C22 (amended): have_alternate_moves returns false only when at most one
\* root child can still catch up, and never when time management is OFF; with
\* NO_PRUNING it changes no child's active flag, but it may return false.
C22_StopsOnlyForOneContender ==
    [][\A timed \in Timed, out_of_time \in BOOLEAN :
          PruneCheck(timed, out_of_time) =>
              /\ ~call'.result => Cardinality(Contenders(call'.left)) <= 1
              /\ cfg.timemanage = "OFF" => call'.result
              /\ cfg.timemanage \in {"OFF", "NO_PRUNING"} => N' = N]_vars

\* have_alternate_moves has ended a search under NO_PRUNING.
C22_Witness ==
    /\ cfg.timemanage = "NO_PRUNING"
    /\ call.stage = "exit" /\ ~call.result
    /\ Cardinality(N[root].children) = MaxChildren

\* C23: when think returns, every child of the root is active, whatever the
\* checks of the loop pruned.
C23_ChildrenActiveOnReturn ==
    (ctl = "idle" /\ call.stage = "returned") =>
        \A c \in N[root].children : N[c].active

\* think has returned after a check that deactivated a root child.
C23_Witness ==
    /\ ctl = "idle" /\ call.stage = "returned"
    /\ call.pruned
    /\ N[root].children # {}

\* ------------------------------------------------------------- suspension
\* A search thread's tests, spelled out: the search is stopped if the run
\* flag is down or the tree is full, and it is to stop if a limit is reached.
NotRunning == ~run \/ tree_size >= cfg.max_tree_size
LimitReached == playouts >= maxplayouts \/ N[root].visits >= maxvisits
\* Worker w launches a simulation in this step.
Launches(w) == wsim[w] = 0 /\ wsim'[w] # 0

\* C24 (as stated): a worker blocks on the condition variable whenever
\* !is_running or stop_thinking or !root_prepared holds and launches no
\* simulation in such a state.
C24_NoLaunchUnlessPrepared ==
    [][\A w \in Workers :
          Launches(w) => ~NotRunning /\ ~LimitReached /\ root_prepared]_vars

\* C24 (amended): a worker enters the launch path of search() only if it
\* finds is_running, launches only if it then finds !stop_thinking under the
\* reader lock, and else waits on the condition variable, where it blocks
\* exactly if !is_running or stop_thinking (and not terminate); root_prepared
\* is not tested.  A FAIL inside the tree returns from search().
C24_BlocksWhenStopped ==
    [][\A w \in Workers :
          /\ (wpc[w] = "idle" /\ wpc'[w] = "rd_add") => ~NotRunning
          /\ (wpc[w] = "idle" /\ NotRunning /\ wpc'[w] # "idle")
                 => wpc'[w] \in {"cv_check", "exited"}
          /\ Launches(w) => ~LimitReached
          /\ (wpc[w] = "rd_add" /\ root_lock < WRITER /\ LimitReached
                 /\ wpc'[w] # "rd_add") => wpc'[w] = "rd_rel_wait"
          /\ (wpc[w] = "cv_check" /\ wpc'[w] # "cv_check")
                 => (wpc'[w] = "cv_blocked"
                        <=> ~terminate /\ (NotRunning \/ LimitReached))
          /\ SimFail(w) => wpc'[w] = "idle" /\ wsim'[w] = 0]_vars

\* A worker is blocked on the condition variable after a simulation was
\* launched on an unprepared root and another one returned on FAIL.
C24_Witness ==
    /\ \E w \in Workers : wpc[w] = "cv_blocked"
    /\ failed # {}
    /\ root_prepared

C27_NoExpansionWhenFull ==
    [][tree_size >= cfg.max_tree_size =>
          /\ \A w \in Workers : ~Launches(w)
          /\ \A w \in Workers : ~SimWrite(w)]_vars

\* ------------------------------------------------------------- memory claims
\* Settings that fit: the network, a cache of MIN_CACHE_COUNT entries and a
\* tree of MIN_TREE_SPACE.
Fits(c) ==
    /\ c.max_memory >= c.base_memory
    /\ c.cache_size >= MIN_CACHE_COUNT
    /\ c.max_tree_size >= (MIN_TREE_SPACE * 10) \div 11
    /\ c.max_tree_size + c.cache_size * ENTRY_SIZE <= c.max_memory - c.base_memory

\* C26: set_max_memory refuses settings that do not fit: it returns failure
\* with a message and leaves cfg_max_memory, cfg_max_cache_ratio_percent,
\* cfg_max_tree_size and the cache size unchanged; what it accepts fits; and
\* GTP::initialize turns a failure into a thrown error.
C26_RefusalLeavesConfig ==
    [][call' # call =>
          /\ ~call'.ok => /\ cfg' = cfg
                          /\ call'.message \in {"Not enough memory for network.",
                                                "Not enough memory for cache.",
                                                "Not enough memory for search tree."}
          /\ call'.ok => Fits(cfg')
          /\ (call'.stage = "thrown") <=> (call'.from = "initialize" /\ ~call'.ok)]_vars

\* A setoption refused after a successful initialize: the configuration is
\* the one initialize stored.
C26_Witness ==
    /\ call.made /\ call.from = "setoption" /\ ~call.ok
    /\ call.message = "Not enough memory for search tree."
    /\ cfg.cache_size >= MIN_CACHE_COUNT

\* ------------------------------------------------------------- superko
\* C28: when the selected child's move violates superko the child is marked
\* invalid, every unit of virtual loss this descent added is removed (on the
\* nodes of the path and on the invalidated child), no visit is added, the
\* pending counter is decremented once and the simulation returns.
C28_SuperkoUnwindsAll ==
    [][\A w \in Workers, c \in DOMAIN N :
          SimSuperko(w, c) =>
              /\ N'[c].st = "INVALID"
              /\ \A n \in Range(SimOf(w).path) : N'[n].vl = N[n].vl - 1
              /\ N'[c].vl = N[c].vl
              /\ \A n \in DOMAIN N : N'[n].visits = N[n].visits
              /\ pending'[SimOf(w).counter] = pending[SimOf(w).counter] - 1
              /\ wpc'[w] = "idle" /\ wsim'[w] = 0]_vars

\* ------------------------------------------------------------- expansion
\* C29: a node goes IDLE -> WRITING -> READY at most once: WRITE is granted
\* (and the evaluator asked) only on a node that was never expanded, also on
\* a root that update_root has kept.
C29_ExpandedOnce ==
    [][\A n \in DOMAIN N :
          (N[n].st # "WRITING" /\ N'[n].st = "WRITING")
              => N[n].st = "IDLE" /\ N[n].children = {} /\ N[n].visits = 0]_vars

\* ------------------------------------------------------------- lock encoding
\* The writer has added its 128 and not yet taken it back.
WriterAdded == ctl \in {"ur_spin", "ur_cs", "ur_release"}
\* The threads that hold the reader lock, and those whose increment is
\* still to be undone.
Holders == readers.holding + Cardinality({w \in Workers : ReaderHolds(w)})
Undoers == readers.undoing + Cardinality({w \in Workers : wpc[w] = "rd_undo"})

\* C30: counter values 0..127 are reader counts and the value 128 means the
\* exclusive writer: for any number of readers the counter is exactly 128
\* only while the writer has added its 128 and no reader holds the lock.
C30_LockEncoding ==
    /\ root_lock < WRITER => root_lock = Holders + Undoers
    /\ root_lock = WRITER => WriterAdded /\ Holders = 0

\* ------------------------------------------------------------- C31
\* The nodes and the pending counter as a worker's simulation found them,
\* its unit on the start root included.
OnPath(w) == Range(PathWith(w))

PonderReturned == mode = "ponder" /\ ctl \in {"idle", "destructing"}

Numerals == {"0", "1", "2", "40", "99", "2000"}
Words == {"true", "false", "x"}

\* The number a numeral stands for.
NumberOf(value) ==
    CASE value = "0" -> 0
      [] value = "1" -> 1
      [] value = "2" -> 2
      [] value = "40" -> 40
      [] value = "99" -> 99
      [] value = "2000" -> 2000
      [] OTHER -> 0

\* valuestream >> n: a text that is no number sets the fail bit and stores 0.
ReadInt(value) ==
    [fail |-> value \notin Numerals,
     n |-> IF value \in Numerals THEN NumberOf(value) ELSE 0]

\* UCTSearch::set_playout_limit, set_visit_limit: the limit stored.
set_playout_limit(n) == Min(n, UNLIMITED_PLAYOUTS)
set_visit_limit(n) == Min(n, UNLIMITED_PLAYOUTS)

\* What execute_setoption leaves: the response, the configuration and the
\* limits of the search.
Answer(ok, c, visit_limit, playout_limit) ==
    [ok |-> ok, cfg |-> c, maxvisits |-> visit_limit,
     maxplayouts |-> playout_limit]

\* gtp_fail_printf, gtp_printf with nothing stored.
Failure == Answer(FALSE, cfg, maxvisits, maxplayouts)
Success == Answer(TRUE, cfg, maxvisits, maxplayouts)

\* name maximum memory use (mib)
OptionMemory(value) ==
    LET r == ReadInt(value) IN
    IF r.fail THEN Failure
    ELSE IF r.n < MIN_OPTION_MEMORY \/ r.n > MAX_OPTION_MEMORY THEN Failure
    ELSE LET m == set_max_memory(r.n, cfg.max_cache_ratio_percent) IN
         Answer(m.ok, m.cfg, maxvisits, maxplayouts)

\* name percentage of memory for cache
OptionCacheRatio(value) ==
    LET r == ReadInt(value) IN
    IF r.n < 1 \/ r.n > 99 THEN Failure
    ELSE LET m == set_max_memory(cfg.max_memory, r.n) IN
         Answer(m.ok, m.cfg, maxvisits, maxplayouts)

\* name visits
OptionVisits(value) ==
    LET number == ReadInt(value).n
        stored == IF number = 0 THEN UNLIMITED_PLAYOUTS ELSE number
    IN Answer(TRUE, [cfg EXCEPT !.max_visits = stored],
              set_visit_limit(stored), maxplayouts)

\* name playouts: cfg_max_playouts is stored, then pondering is looked at,
\* and the search is given cfg_max_visits as its playout limit.
OptionPlayouts(value) ==
    LET number == ReadInt(value).n
        stored == IF number = 0 THEN UNLIMITED_PLAYOUTS ELSE number
        c == [cfg EXCEPT !.max_playouts = stored]
    IN IF number # 0 /\ cfg.allow_pondering
       THEN Answer(FALSE, c, maxvisits, maxplayouts)
       ELSE Answer(TRUE, c, maxvisits, set_playout_limit(cfg.max_visits))

\* name lagbuffer
OptionLagbuffer(value) ==
    Answer(TRUE, [cfg EXCEPT !.lagbuffer_cs = ReadInt(value).n],
           maxvisits, maxplayouts)

\* name pondering
OptionPondering(toggle) ==
    IF toggle = "true"
    THEN IF cfg.max_playouts # UNLIMITED_PLAYOUTS THEN Failure
         ELSE Answer(TRUE, [cfg EXCEPT !.allow_pondering = TRUE],
                     maxvisits, maxplayouts)
    ELSE IF toggle = "false"
    THEN Answer(TRUE, [cfg EXCEPT !.allow_pondering = FALSE],
                maxvisits, maxplayouts)
    ELSE Failure

\* name resign percentage
OptionResign(value) ==
    Answer(TRUE, [cfg EXCEPT !.resignpct = ReadInt(value).n],
           maxvisits, maxplayouts)

\* The option names tried, one of them unknown, and the word in the place
\* of "name" (none: the options are listed).
OptionNames ==
    {"maximum memory use (mib)", "percentage of memory for cache", "visits",
     "playouts", "lagbuffer", "pondering", "resign percentage", "threads"}
NameTokens == {"", "name", "value"}

\* The values tried with each option.
Tried(name) ==
    CASE name = "maximum memory use (mib)" -> {"2", "40", "99", "2000", "x"}
      [] name = "percentage of memory for cache" -> {"0", "1", "40", "99", "x"}
      [] name \in {"visits", "playouts"} -> {"0", "1", "2000", "x"}
      [] name = "pondering" -> Words
      [] OTHER -> {"0", "1"}

\* GTP::execute_setoption(search, id, command)
execute_setoption(name_token, name, value) ==
    IF name_token = "" THEN Success
    ELSE IF name_token # "name" THEN Failure
    ELSE CASE name = "maximum memory use (mib)" -> OptionMemory(value)
           [] name = "percentage of memory for cache" -> OptionCacheRatio(value)
           [] name = "visits" -> OptionVisits(value)
           [] name = "playouts" -> OptionPlayouts(value)
           [] name = "lagbuffer" -> OptionLagbuffer(value)
           [] name = "pondering" -> OptionPondering(value)
           [] name = "resign percentage" -> OptionResign(value)
           [] OTHER -> Failure

\* The command just answered: where it came from, the option it named,
\* the response, and whether analysis lines were written while it ran.
Told(from, name, ok, lines) ==
    [made |-> TRUE, stage |-> "ready", from |-> from, name |-> name,
     ok |-> ok, lines |-> lines]

\* A command is read once GTP::initialize has succeeded.
Listening == call.made /\ call.stage = "ready"

\* Everything of the search but its limits and the game record.
enginevars == <<rootstate, last_rootstate, root, N, root_lock, run, terminate,
                root_prepared, playouts, positions, komi, advanced, readers,
                pcounter, pending, tasks, wpc, wsim, sims, nsims, notes, ctl,
                mode, nupdates, leaked, prepared_by>>

\* lz-setoption ...
SetOption(name_token, name, value) ==
    /\ Listening
    /\ value \in Tried(name)
    /\ LET r == execute_setoption(name_token, name, value) IN
       /\ cfg' = r.cfg
       /\ maxvisits' = r.maxvisits
       /\ maxplayouts' = r.maxplayouts
       /\ call' = Told("lz-setoption", IF name_token = "name" THEN name ELSE "",
                       r.ok, FALSE)
    /\ UNCHANGED <<game, enginevars>>

\* ------------------------------------------------------------- GTP search commands
\* The analysis intervals tried, in centiseconds.
Intervals == 0..MaxInterval

\* The loops of think() and ponder(): output_analysis is called if the
\* interval is set and the search outlasts it.
emits(c, outlasts) == c.analyze_interval_centis # 0 /\ outlasts

\* genmove and lz-genmove_analyze.  The search is reduced to what the
\* command lets through of it: the move think() returns and the analysis
\* lines think() and ponder() write.
Genmove(analysis_output, colour_ok, interval, m, t_outlasts, p_outlasts) ==
    /\ Listening
    /\ Len(game) < DeepGameLen
    /\ analysis_output \/ interval = 0
    /\ LET from == IF analysis_output THEN "lz-genmove_analyze" ELSE "genmove"
           c == IF analysis_output
                THEN [cfg EXCEPT !.analyze_interval_centis = interval]
                ELSE cfg
       IN IF ~colour_ok
          THEN /\ call' = Told(from, "", FALSE, FALSE)
               /\ UNCHANGED <<cfg, game>>
          ELSE /\ cfg' = c
               /\ game' = Append(game, m)
               /\ call' = Told(from, "", TRUE,
                               \/ emits(c, t_outlasts)
                               \/ c.allow_pondering /\ emits(c, p_outlasts))
    /\ UNCHANGED <<maxvisits, maxplayouts, enginevars>>

\* lz-analyze: without arguments the interval is left as it is; a text that
\* is neither a colour nor a number, or a colour without a number, fails.
\* After ponder() the interval is cleared.
Analyze(form, interval, outlasts) ==
    /\ Listening
    /\ form \in {"none", "interval", "colour interval", "word", "colour"}
    /\ form \in {"interval", "colour interval"} \/ interval = 0
    /\ LET c == IF form \in {"interval", "colour interval"}
                THEN [cfg EXCEPT !.analyze_interval_centis = interval]
                ELSE cfg
       IN IF form \in {"word", "colour"}
          THEN /\ call' = Told("lz-analyze", "", FALSE, FALSE)
               /\ UNCHANGED cfg
          ELSE /\ cfg' = [c EXCEPT !.analyze_interval_centis = 0]
               /\ call' = Told("lz-analyze", "", TRUE, emits(c, outlasts))
    /\ UNCHANGED <<game, maxvisits, maxplayouts, enginevars>>

\* kgs-genmove_cleanup
KgsGenmoveCleanup(colour_ok, m, t_outlasts, p_outlasts) ==
    /\ Listening
    /\ Len(game) < DeepGameLen
    /\ IF ~colour_ok
       THEN /\ call' = Told("kgs-genmove_cleanup", "", FALSE, FALSE)
            /\ UNCHANGED game
       ELSE /\ game' = Append(game, m)
            /\ call' = Told("kgs-genmove_cleanup", "", TRUE,
                            \/ emits(cfg, t_outlasts)
                            \/ cfg.allow_pondering /\ emits(cfg, p_outlasts))
    /\ UNCHANGED <<cfg, maxvisits, maxplayouts, enginevars>>

\* time_left: the clock is adjusted and, if pondering is allowed, ponder()
\* is called.
TimeLeft(args_ok, outlasts) ==
    /\ Listening
    /\ IF ~args_ok
       THEN call' = Told("time_left", "", FALSE, FALSE)
       ELSE call' = Told("time_left", "", TRUE,
                         cfg.allow_pondering /\ emits(cfg, outlasts))
    /\ UNCHANGED <<cfg, game, maxvisits, maxplayouts, enginevars>>

\* The program after setup_default_parameters, a small network loaded and
\* the search constructed.
OptInit ==
    /\ Constructed
    /\ maxvisits = set_visit_limit(UNLIMITED_PLAYOUTS)
    /\ maxplayouts = set_playout_limit(UNLIMITED_PLAYOUTS)
    /\ call = NoCall
    /\ cfg = Defaults(MIN_TREE_SPACE)

OptNext ==
    \/ Initialize
    \/ \E name_token \in NameTokens, name \in OptionNames,
          value \in Numerals \cup Words : SetOption(name_token, name, value)

OptSpec == OptInit /\ [][OptNext]_vars

\* The search commands, with pondering switched on and off between them.
CommandNext ==
    \/ Initialize
    \/ \E toggle \in Words : SetOption("name", "pondering", toggle)
    \/ \E analysis_output, colour_ok, t_outlasts, p_outlasts \in BOOLEAN :
          \E interval \in Intervals, m \in Moves :
             Genmove(analysis_output, colour_ok, interval, m, t_outlasts, p_outlasts)
    \/ \E form \in {"none", "interval", "colour interval", "word", "colour"} :
          \E interval \in Intervals, outlasts \in BOOLEAN :
             Analyze(form, interval, outlasts)
    \/ \E colour_ok, t_outlasts, p_outlasts \in BOOLEAN : \E m \in Moves :
          KgsGenmoveCleanup(colour_ok, m, t_outlasts, p_outlasts)
    \/ \E args_ok, outlasts \in BOOLEAN : TimeLeft(args_ok, outlasts)

CommandSpec == OptInit /\ [][CommandNext]_vars

\* ------------------------------------------------------------- C33
\* C33: a plain genmove, kgs-genmove_cleanup or time_left writes no analysis
\* line, whatever commands came before it.
C33_NoAnalysisLinesUnlessAsked ==
    (Listening /\ call.from \in {"genmove", "kgs-genmove_cleanup", "time_left"})
        => ~call.lines

\* ------------------------------------------------------------- C34
\* C34: the callback of a simulation launched before the last reset of
\* m_playouts (one that carries an earlier pending counter) does not
\* increment m_playouts.
C34_PlayoutsCountThisSearch ==
    [][\A s \in DOMAIN sims :
          (CbBackup(s) /\ sims[s].counter # pcounter) => playouts' = playouts]_vars

\* ------------------------------------------------------------- C35
\* The simulations in flight, among ss, that were launched with pending
\* counter e.
EpochSims(ss, e) == {s \in DOMAIN ss : ss[s].counter = e}

\* C35: the pending counters follow the simulations.  A launch happens
\* under the root reader lock and counts the simulation into the counter
\* current at that moment; every step changes each counter by exactly the
\* change in the number of its unfinished simulations (a simulation whose
\* thread faults on deleted memory drops out uncounted); so no counter is
\* negative or below the number of its unfinished simulations.
C35_PendingBalance ==
    [][/\ \A e \in DOMAIN pending :
             IF sims' = sims
             THEN pending'[e] = pending[e]
             ELSE pending'[e] - pending[e] =
                     Cardinality(EpochSims(sims', e)) - Cardinality(EpochSims(sims, e))
                     + Cardinality({s \in EpochSims(sims, e) : UseAfterFree(s)})
       /\ \A e \in DOMAIN pending' :
             /\ pending'[e] >= 0
             /\ pending'[e] >= Cardinality(EpochSims(sims', e))
       /\ \A w \in Workers :
             Launches(w) => /\ wpc'[w] = "rd_rel_go"
                            /\ root_lock' >= 1
                            /\ sims'[wsim'[w]].counter = pcounter
                            /\ pending'[pcounter] = pending[pcounter] + 1
      ]_vars

\* Simulations of two searches are in flight at once, each counted in its
\* own counter, after a simulation has returned on FAIL.
C35_Witness ==
    /\ failed # {}
    /\ pending[pcounter] >= 1
    /\ \E e \in DOMAIN pending : e # pcounter /\ pending[e] >= 1
    /\ \A e \in DOMAIN pending : pending[e] = Cardinality(EpochSims(sims, e))

\* ------------------------------------------------------------- C36
\* The steps in which the controller writes m_rootstate: the copy of the
\* game state in update_root, and set_to_move in think() once update_root
\* has returned.
WritesRootstate == UrCritical \/ (UrWait /\ mode = "think")

\* Worker w is in the reader section of search() in which it copies
\* m_rootstate.
CopiesRootstate(w) == wpc[w] = "rd_rel_go"

\* C36: m_rootstate is written only under the root writer lock, so that no
\* write of it happens while a worker is in the reader section in which it
\* copies it.
C36_NoWriteWhileCopied ==
    [][WritesRootstate => \A w \in Workers : ~CopiesRootstate(w)]_vars

\* ------------------------------------------------------------- the two passes
\* An estimate that is not clamped at zero.
unclamped_playouts_left(timed) ==
    LET playouts_left ==
            Min(maxplayouts - playouts, maxvisits - N[root].visits)
    IN IF timed < 0 THEN playouts_left ELSE Min(playouts_left, timed)

\* est_playouts_left as prune_noncontenders calls it.
playouts_left_estimate(timed) == est_playouts_left(timed)

\* The roots tried: at least one child, and an invalid child has no visit
\* (a child is invalidated when it is first selected).
Candidates ==
    {kids \in Kids : /\ kids # <<>>
                     /\ \A i \in DOMAIN kids : ~kids[i].valid => kids[i].visits = 0}

\* One call of prune_noncontenders, child by child, while search threads
\* go on backing up visits and invalidating children.
PassInit ==
    /\ game = <<>>
    /\ rootstate = <<>>
    /\ last_rootstate = NoState
    /\ \E kids \in Candidates : N = Searched(kids)
    /\ root = 1
    /\ root_lock = 0
    /\ run = TRUE
    /\ terminate = FALSE
    /\ root_prepared = TRUE
    /\ playouts = 0
    /\ positions = 0
    /\ \E lim \in Limits : maxvisits = lim[1] /\ maxplayouts = lim[2]
    /\ komi = [g |-> 0, r |-> 0, l |-> 0]
    /\ \E prune \in BOOLEAN :
           call = [made |-> FALSE, stage |-> "first", prune |-> prune, next |-> 2,
                   Nfirst |-> 0, left |-> 0, min_required_visits |-> 0,
                   pruned_nodes |-> 0]
    /\ advanced = [ok |-> FALSE, depth |-> 0, why |-> "none"]
    /\ cfg = Configured(MaxTreeSize)
    /\ readers = [holding |-> 0, undoing |-> 0]
    /\ pcounter = 1
    /\ pending = <<0>>
    /\ tasks = <<>>
    /\ wpc = [w \in Workers |-> "idle"]
    /\ wsim = [w \in Workers |-> 0]
    /\ sims = <<>>
    /\ nsims = 0
    /\ failed = {}
    /\ overby = {}
    /\ contested = {}
    /\ ctl = "think_loop"
    /\ mode = "think"
    /\ nupdates = 1
    /\ leaked = {}
    /\ prepared_by = 1

\* Everything but the tree and the call.
passvars == <<game, rootstate, last_rootstate, root, root_lock, run, terminate,
              root_prepared, playouts, positions, maxvisits, maxplayouts, komi,
              advanced, cfg, readers, pcounter, pending, tasks, wpc, wsim, sims,
              nsims, notes, ctl, mode, nupdates, leaked, prepared_by>>

\* node->valid()
valid(c) == N[c].st # "INVALID"

\* The first loop: Nfirst = max(Nfirst, visits) for a valid child.
FirstPass ==
    /\ call.stage = "first"
    /\ call' = [call EXCEPT
           !.Nfirst = IF valid(call.next) THEN Max(@, N[call.next].visits) ELSE @,
           !.next = IF call.next = Len(N) THEN 2 ELSE @ + 1,
           !.stage = IF call.next = Len(N) THEN "estimate" ELSE @]
    /\ UNCHANGED <<N, passvars>>

\* min_required_visits = Nfirst - est_playouts_left(...)
Estimate(timed) ==
    /\ call.stage = "estimate"
    /\ call' = [call EXCEPT
           !.left = playouts_left_estimate(timed),
           !.min_required_visits = call.Nfirst - playouts_left_estimate(timed),
           !.stage = "second"]
    /\ UNCHANGED <<N, passvars>>

\* The second loop: a valid child is set active or not and counted if it
\* has too few visits; after the last child the function returns.
SecondPass ==
    /\ call.stage = "second"
    /\ LET c == call.next
           enough == has_enough_visits(N[c].visits, call.min_required_visits)
       IN
       /\ N' = IF valid(c) /\ call.prune THEN [N EXCEPT ![c].active = enough]
               ELSE N
       /\ call' = [call EXCEPT
              !.pruned_nodes = IF valid(c) /\ ~enough THEN @ + 1 ELSE @,
              !.next = IF c = Len(N) THEN 2 ELSE @ + 1,
              !.stage = IF c = Len(N) THEN "returned" ELSE @]
    /\ UNCHANGED passvars

\* A search thread backs up a simulation through a valid root child.
VisitArrives(c) ==
    /\ call.stage # "returned"
    /\ c \in ValidChildren(N, root)
    /\ N[c].visits < MaxChildVisits
    /\ N' = [N EXCEPT ![c].visits = @ + 1, ![c].st = "READY",
                      ![root].visits = @ + 1]
    /\ UNCHANGED <<call, passvars>>

\* A search thread selects an unvisited root child for the first time and
\* finds its move barred by superko.
Invalidated(c) ==
    /\ call.stage # "returned"
    /\ c \in ValidChildren(N, root)
    /\ N[c].visits = 0
    /\ N' = [N EXCEPT ![c].st = "INVALID"]
    /\ UNCHANGED <<call, passvars>>

PassNext ==
    \/ FirstPass
    \/ \E timed \in Timed : Estimate(timed)
    \/ SecondPass
    \/ \E c \in DOMAIN N : VisitArrives(c)
    \/ \E c \in DOMAIN N : Invalidated(c)

PassSpec == PassInit /\ [][PassNext]_vars

\* ------------------------------------------------------------- C37
\* C37: prune_noncontenders never prunes every candidate.  The estimate of
\* the playouts left is never negative; on return the number of pruned
\* children is below the number of root children; and, if any child was
\* valid and visited in the first pass, a valid child with at least Nfirst
\* visits has enough visits and, when pruning is on, is active - whatever
\* visits and invalidations arrived between and during the two passes.
C37_NeverPrunesAll ==
    /\ call.stage \in {"second", "returned"} => call.left >= 0
    /\ call.stage = "returned" =>
          /\ call.pruned_nodes < Cardinality(N[root].children)
          /\ call.Nfirst > 0 =>
                \E c \in ValidChildren(N, root) :
                    /\ N[c].visits >= call.Nfirst
                    /\ has_enough_visits(N[c].visits, call.min_required_visits)
                    /\ call.prune => N[c].active
          /\ (call.prune /\ ValidChildren(N, root) # {}) =>
                \E c \in ValidChildren(N, root) : N[c].active

\* Pruning has returned with a child pruned, after a visit arrived between
\* the passes for a child that would otherwise have had too few.
C37_Witness ==
    /\ call.stage = "returned" /\ call.prune
    /\ call.pruned_nodes >= 1
    /\ \E c \in ValidChildren(N, root) : ~N[c].active
    /\ \E c \in ValidChildren(N, root) :
          N[c].active /\ N[c].visits > call.Nfirst


\* ------------------------------------------------------------- C38
\* The limit "value N" asks for: N, or UNLIMITED_PLAYOUTS for 0.
Asked(value) == IF NumberOf(value) = 0 THEN UNLIMITED_PLAYOUTS ELSE NumberOf(value)

\* C38: after a successful "lz-setoption name playouts value N" the playout
\* limit of the search is N (UNLIMITED_PLAYOUTS for 0) and its visit limit
\* is as before; after a successful "name visits value N" the visit limit
\* is N (UNLIMITED_PLAYOUTS for 0) and the playout limit is as before.
\* Stated for N up to UNLIMITED_PLAYOUTS, which both setters cap at.
C38_LimitFollowsOption ==
    [][\A value \in {v \in Numerals : NumberOf(v) <= UNLIMITED_PLAYOUTS} :
          /\ (SetOption("name", "playouts", value) /\ call'.ok) =>
                 maxplayouts' = Asked(value) /\ maxvisits' = maxvisits
          /\ (SetOption("name", "visits", value) /\ call'.ok) =>
                 maxvisits' = Asked(value) /\ maxplayouts' = maxplayouts]_vars

\* ------------------------------------------------------------- C39
\* C39: after any sequence of lz-setoption commands from the default
\* configuration, cfg_allow_pondering implies
\* cfg_max_playouts = UNLIMITED_PLAYOUTS.
C39_PonderingMeansUnlimited ==
    cfg.allow_pondering => cfg.max_playouts = UNLIMITED_PLAYOUTS

\* ------------------------------------------------------------- C40
\* C40: an lz-setoption command answered with a failure leaves every
\* configuration value and both limits of the search as they were.
C40_FailureChangesNothing ==
    [][\A name_token \in NameTokens, name \in OptionNames,
          value \in Numerals \cup Words :
          (SetOption(name_token, name, value) /\ ~call'.ok) =>
              /\ cfg' = cfg
              /\ maxvisits' = maxvisits
              /\ maxplayouts' = maxplayouts]_vars

====
